---- MODULE Spec2Model ----
(***************************************************************************)
(* Host process controller of webOS-processMGR.                            *)
(*                                                                         *)
(* The model follows one terminate request from the HTTP route             *)
(* (hproc/routes.py) through the admin gate (auth/service.py) into          *)
(* service.terminate_process (hproc/service.py), one psutil call per step, *)
(* with the operating system acting in between: the target may exit at any *)
(* moment and time passes while the service waits.                         *)
(*                                                                         *)
(* Text is modelled as a sequence of word tokens, so that "the reason      *)
(* contains ..." is a sub-sequence test.                                    *)
(***************************************************************************)
EXTENDS Integers, Sequences, FiniteSets, TLC

\* ------------------------------------------------------------------ bounds
MaxPid == 3

\* seconds of clock time followed in one run
MaxTicks == 3
\* service calls (list_processes, get_system_metrics) followed in one run
MaxCalls == 3
\* length of the longest process table ranked
MaxProcs == 6
\* wake-ups of the metrics loop followed in one run
MaxCycles == 2
MaxObservedCycles == 1
MaxFrames == 2
MaxBroadcasts == 1
MaxStarts == 4

\* ------------------------------------------------------- program constants
PROCESS_CACHE_TTL == 2
METRICS_CACHE_TTL == 1
TOP_N == 5
CPU_CAP == 100
LOOP_PERIOD == 2
MAX_PID_VALUE == 2147483647
GRACEFUL_TIMEOUT == 3
KILL_TIMEOUT == 2
HTTP_200_OK == 200
HTTP_400_BAD_REQUEST == 400
HTTP_401_UNAUTHORIZED == 401
WS_CLOSE_UNAUTHORIZED == 4001
HTTP_403_FORBIDDEN == 403

\* variant: pid 1 left out of the critical set
CRITICAL_PIDS_OnlyZero == {0}

CRITICAL_PIDS == {0, 1}

CRITICAL_PROCESS_NAMES ==
    { "init", "systemd", "launchd", "kernel", "kthreadd",
      "System", "csrss", "wininit", "services", "lsass",
      "smss", "svchost" }

\* ------------------------------------------------------------ input domains
\* Process names the OS may report for the target.
Names == { "init", "INIT", "System", "SvcHost", "bash" }

\* A Python int of any size, as two limbs: the value is hi * 65536 + lo with
\* lo in 0 .. 65535 (the pid of a request path is not bounded by 2^31 - 1).
Wide(n) == [hi |-> n \div 65536, lo |-> n % 65536]
WideSucc(w) == IF w.lo = 65535 THEN [hi |-> w.hi + 1, lo |-> 0]
                               ELSE [hi |-> w.hi, lo |-> w.lo + 1]
WideLess(a, b) == a.hi < b.hi \/ (a.hi = b.hi /\ a.lo < b.lo)
\* the value of w, for w within 32 bits
Narrow(w) == w.hi * 65536 + w.lo

\* pids a request may carry: -1, the small pids, 2^31 - 1 and 2^31
ReqPids ==
    { Wide(n) : n \in (-1 .. MaxPid) \cup { MAX_PID_VALUE } }
        \cup { WideSucc(Wide(MAX_PID_VALUE)) }

NoName == "<none>"
Absent == "<absent>"
None == "<None>"

\* Bearer credentials: none, an undecodable token, a token whose payload
\* lacks the username, and well-formed tokens of three users.
NoCred == [kind |-> "none", sub |-> None, username |-> None, roles |-> {}]
BadToken == [kind |-> "garbage", sub |-> None, username |-> None, roles |-> {}]
Creds ==
    { NoCred, BadToken,
      [kind |-> "jwt", sub |-> "u0", username |-> None, roles |-> {"admin"}],
      [kind |-> "jwt", sub |-> "u1", username |-> "alice", roles |-> {"user"}],
      [kind |-> "jwt", sub |-> "u2", username |-> "admin", roles |-> {"admin"}],
      [kind |-> "jwt", sub |-> "u3", username |-> "root", roles |-> {"user", "admin"}] }

\* What the OS process table holds for the requested pid.
TargetEntries == [alive : BOOLEAN, name : Names, perm : BOOLEAN]

\* ------------------------------------------------------------------- text
\* str(int) for the integers of the model
IntStr(n) ==
    CASE n = 0 -> "0" [] n = 1 -> "1" [] n = 2 -> "2" [] n = 3 -> "3"
      [] n = 4 -> "4" [] n = 5 -> "5" [] n = 6 -> "6" [] n = 7 -> "7"
      [] n = MAX_PID_VALUE -> "2147483647"
      [] OTHER -> "n"

\* str.lower() on the names of the model
lower(s) ==
    CASE s = "INIT" -> "init"
      [] s = "System" -> "system"
      [] s = "SvcHost" -> "svchost"
      [] OTHER -> s

\* sub occurs in text as a contiguous run of tokens
Contains(text, sub) ==
    \E i \in 0 .. (Len(text) - Len(sub)) :
        \A j \in 1 .. Len(sub) : text[i + j] = sub[j]

\* ------------------------------------------------------------- exceptions
Exc(cls, text) == [cls |-> cls, text |-> text]

NoException == Exc("none", << >>)
\* psutil.NoSuchProcess / psutil.AccessDenied / psutil.TimeoutExpired, and an
\* OS failure of any other class
NoSuchProcess(pid) ==
    Exc("NoSuchProcess", <<"process", "no", "longer", "exists", "(pid=", IntStr(pid), ")">>)
AccessDenied(pid) == Exc("AccessDenied", <<"(pid=", IntStr(pid), ")">>)
TimeoutExpired(seconds, pid) ==
    Exc("TimeoutExpired",
        <<"timeout", "after", IntStr(seconds), "seconds", "(pid=", IntStr(pid), ")">>)
OSError == Exc("OSError", <<"[Errno", "5]", "Input/output", "error">>)

TerminationDenied(text) == Exc("TerminationDenied", text)

\* -------------------------------------------------------------- audit log
\* One record per logging call; a field the message does not carry is Absent.
LogEvent(level, msg, pid, name, by, reason, result) ==
    [level |-> level, msg |-> msg, pid |-> pid, name |-> name, by |-> by,
     reason |-> reason, result |-> result]

warning_emoji(msg, pid, name, reason) ==
    LogEvent("WARNING", msg, IntStr(pid), name, Absent, reason, Absent)

info_emoji(msg, pid, by, result) ==
    LogEvent("INFO", msg, IntStr(pid), Absent, by, << >>, result)

MsgDenied == <<"Host", "process", "termination", "denied">>
MsgFailed == <<"Host", "process", "termination", "failed">>
MsgTerminated == <<"Host", "process", "terminated">>
MsgKilled == <<"Host", "process", "killed", "(forced)">>

\* ----------------------------------------------------------- denial policy
IsCriticalPid(pid) == pid \in CRITICAL_PIDS

\* variant: the parent check left out
PolicyRule_NoParent(pid, self, parent) ==
    IF IsCriticalPid(pid) THEN "critical_pid"
    ELSE IF pid = self THEN "self"
    ELSE "none"

\* variant: the self check made before the critical-pid check
PolicyRule_SelfFirst(pid, self, parent) ==
    IF pid = self THEN "self"
    ELSE IF IsCriticalPid(pid) THEN "critical_pid"
    ELSE IF pid = parent THEN "parent"
    ELSE "none"

\* variant: the self check left out
PolicyRule_NoSelf(pid, self, parent) ==
    IF IsCriticalPid(pid) THEN "critical_pid"
    ELSE IF pid = parent THEN "parent"
    ELSE "none"

\* the three checks made before the process is looked up, in code order
PolicyRule(pid, self, parent) ==
    IF IsCriticalPid(pid) THEN "critical_pid"
    ELSE IF pid = self THEN "self"
    ELSE IF pid = parent THEN "parent"
    ELSE "none"

PolicyLog(rule, pid) ==
    CASE rule = "critical_pid" ->
            warning_emoji(MsgDenied, pid, Absent, <<"critical", "system", "process">>)
      [] rule = "self" ->
            warning_emoji(MsgDenied, pid, Absent, <<"self", "process">>)
      [] rule = "parent" ->
            warning_emoji(MsgDenied, pid, Absent, <<"parent", "process">>)

PolicyDenial(rule, pid) ==
    CASE rule = "critical_pid" ->
            TerminationDenied(<<"Cannot", "terminate", "critical", "system",
                                "process", ":", "PID", IntStr(pid)>>)
      [] rule = "self" ->
            TerminationDenied(<<"Cannot", "terminate", "self", "process">>)
      [] rule = "parent" ->
            TerminationDenied(<<"Cannot", "terminate", "parent", "process">>)

\* variant: the name compared as reported, without lowering it
IsCriticalName_CaseSensitive(proc_name) ==
    proc_name \in CRITICAL_PROCESS_NAMES

IsCriticalName(proc_name) ==
    lower(proc_name) \in { lower(name) : name \in CRITICAL_PROCESS_NAMES }

CriticalNameLog(pid, proc_name) ==
    warning_emoji(MsgDenied, pid, proc_name, <<"critical", "process", "name">>)

CriticalNameDenial(proc_name) ==
    TerminationDenied(<<"Cannot", "terminate", "critical", "system",
                        "process", ":", proc_name>>)

\* --------------------------------------------------------- except clauses
\* The three except clauses of terminate_process: the log record written and
\* the exception that leaves the function, for an exception e raised inside
\* the try block.
HandlerLog(e, pid) ==
    CASE e.cls = "NoSuchProcess" ->
            warning_emoji(MsgFailed, pid, Absent, <<"process", "not", "found">>)
      [] e.cls = "AccessDenied" ->
            warning_emoji(MsgDenied, pid, Absent, <<"access", "denied">>)
      [] OTHER ->
            warning_emoji(MsgFailed, pid, Absent, e.text)

\* variant: the last except clause re-raises the exception it caught
HandlerRaise_Reraise(e, pid) ==
    CASE e.cls = "NoSuchProcess" ->
            TerminationDenied(<<"Process", IntStr(pid), "not", "found">>)
      [] e.cls = "AccessDenied" ->
            TerminationDenied(<<"Access", "denied", "to", "terminate",
                                "process", IntStr(pid)>>)
      [] OTHER -> e

HandlerRaise(e, pid) ==
    CASE e.cls = "NoSuchProcess" ->
            TerminationDenied(<<"Process", IntStr(pid), "not", "found">>)
      [] e.cls = "AccessDenied" ->
            TerminationDenied(<<"Access", "denied", "to", "terminate",
                                "process", IntStr(pid)>>)
      [] OTHER ->
            TerminationDenied(<<"Failed", "to", "terminate", "process", ":">> \o e.text)

\* ------------------------------------------------------------ route helpers
\* get_current_user + decode_token: the HTTP error raised, or 0 when the
\* caller is authenticated
AuthError(cred) ==
    IF cred.kind = "none" THEN [status |-> HTTP_401_UNAUTHORIZED, detail |-> <<"Not", "authenticated">>]
    ELSE IF cred.kind # "jwt"
        THEN [status |-> HTTP_401_UNAUTHORIZED, detail |-> <<"Could", "not", "validate", "credentials">>]
    ELSE IF cred.sub = None \/ cred.username = None
        THEN [status |-> HTTP_401_UNAUTHORIZED, detail |-> <<"Invalid", "token", "payload">>]
    ELSE [status |-> 0, detail |-> << >>]

\* variant: the role is not checked
HasAdminRole_Any(roles) == TRUE

\* get_admin_user
HasAdminRole(roles) == "admin" \in roles

\* variant: the upper limit compared with >= instead of >
validate_pid_OffByOne(pid) ==
    IF WideLess(pid, Wide(0))
        THEN [status |-> HTTP_400_BAD_REQUEST,
              detail |-> <<"PID", "must", "be", "a", "non-negative", "integer">>]
    ELSE IF ~WideLess(pid, Wide(MAX_PID_VALUE))
        THEN [status |-> HTTP_400_BAD_REQUEST, detail |-> <<"Invalid", "PID", "value">>]
    ELSE [status |-> 0, detail |-> << >>]

\* validate_pid
validate_pid(pid) ==
    IF WideLess(pid, Wide(0))
        THEN [status |-> HTTP_400_BAD_REQUEST,
              detail |-> <<"PID", "must", "be", "a", "non-negative", "integer">>]
    ELSE IF WideLess(Wide(MAX_PID_VALUE), pid)
        THEN [status |-> HTTP_400_BAD_REQUEST, detail |-> <<"Invalid", "PID", "value">>]
    ELSE [status |-> 0, detail |-> << >>]

\* ------------------------------------------------------ process inspector
\* An optional value: << >> is None, <<v>> is the value v.
Some(v) == <<v>>
Nothing == << >>

\* A float that is a quotient of two integers (den > 0).
Frac(n, d) == [num |-> n, den |-> d]
FracLess(a, b) == a.num * b.den < b.num * a.den

\* psutil.cpu_count() or 1
CpuCount(reading) ==
    IF reading = Nothing \/ reading[1] = 0 THEN 1 ELSE reading[1]

\* variant: the quotient is not capped
CpuPercent_NoCap(raw_cpu, cpu_count) ==
    IF raw_cpu > 0 THEN Frac(raw_cpu, cpu_count) ELSE Frac(0, 1)

\* min(100.0, raw_cpu / cpu_count) if raw_cpu > 0 else 0.0
CpuPercent(raw_cpu, cpu_count) ==
    IF raw_cpu > 0
        THEN IF raw_cpu >= CPU_CAP * cpu_count THEN Frac(CPU_CAP, 1)
                                               ELSE Frac(raw_cpu, cpu_count)
        ELSE Frac(0, 1)

\* the psutil errors the per-process readings are guarded against
\* (ZombieProcess is a NoSuchProcess)
ReadingErrors == {"NoSuchProcess", "AccessDenied", "ZombieProcess"}

\* The body of the enumeration loop for one process p that process_iter has
\* yielded: p.info with cpu_percent and memory_percent added, 0.0 standing in
\* for a reading that psutil refused, and cmdline left out.
ProcInfo(p, cpu_count) ==
    [pid |-> p.pid, name |-> p.name,
     cpu_percent |-> IF p.cpuErr \in ReadingErrors THEN Frac(0, 1)
                     ELSE CpuPercent(p.raw, cpu_count),
     memory_percent |-> IF p.memErr \in ReadingErrors THEN 0 ELSE p.mem,
     cmdline |-> None]

\* variant: a process whose reading fails is dropped from the list
EnumerateProcesses_DropFailed(table, cores) ==
    LET yielded == SelectSeq(table, LAMBDA p : ~p.gone /\ p.cpuErr = "ok" /\ p.memErr = "ok")
    IN  [i \in 1 .. Len(yielded) |-> ProcInfo(yielded[i], CpuCount(cores))]

\* The enumeration of list_processes over the OS process table: process_iter
\* passes over a process that has gone before it is yielded, every process
\* it yields is appended.
EnumerateProcesses(table, cores) ==
    LET yielded == SelectSeq(table, LAMBDA p : ~p.gone)
    IN  [i \in 1 .. Len(yielded) |-> ProcInfo(yielded[i], CpuCount(cores))]

\* variant: an entry is placed before the entries of equal cpu
InsertByCpu_BeforeEquals(sorted, e) ==
    LET before == { i \in 1 .. Len(sorted) : FracLess(e.cpu_percent, sorted[i].cpu_percent) }
        k == Cardinality(before)
    IN  SubSeq(sorted, 1, k) \o <<e>> \o SubSeq(sorted, k + 1, Len(sorted))

\* e placed into a list sorted by cpu descending, after every entry whose cpu
\* is not lower (a stable sort keeps entries of equal key in input order)
InsertByCpu(sorted, e) ==
    LET before == { i \in 1 .. Len(sorted) : ~FracLess(sorted[i].cpu_percent, e.cpu_percent) }
        k == Cardinality(before)
    IN  SubSeq(sorted, 1, k) \o <<e>> \o SubSeq(sorted, k + 1, Len(sorted))

\* sorted(procs, key=lambda x: x.get("cpu_percent", 0), reverse=True)
RECURSIVE SortedByCpu(_)
SortedByCpu(procs) ==
    IF procs = << >> THEN << >>
    ELSE InsertByCpu(SortedByCpu(SubSeq(procs, 1, Len(procs) - 1)), procs[Len(procs)])

\* sorted(...)[:5]
TopByCpu(procs) ==
    LET sorted == SortedByCpu(procs)
    IN  SubSeq(sorted, 1, IF Len(sorted) < TOP_N THEN Len(sorted) ELSE TOP_N)

\* the result dict of get_system_metrics
MetricsResult(cpu, mem, procs) ==
    [cpu_percent |-> cpu, memory_percent |-> mem, top_processes |-> TopByCpu(procs)]

\* variant: a value as old as the TTL is still served
CacheFresh_HalfTtl(t, timestamp, ttl) ==
    2 * (t - timestamp) < ttl

CacheFresh_Inclusive(t, timestamp, ttl) ==
    t - timestamp <= ttl

\* time.time() - cache["timestamp"] < cache["ttl"], the clock in ticks
CacheFresh(t, timestamp, ttl) ==
    t - timestamp < ttl

\* ------------------------------------------------------------------ state
VARIABLES
    selfPid,     \* os.getpid() of the service
    parentPid,   \* os.getppid() of the service
    target,      \* the OS process-table entry of the pid being terminated
    call,        \* the terminate_process call running on the worker pool
    resp,        \* the HTTP response of the latest terminate request
    details,     \* the process-detail query in progress, and its response
    now,         \* time.time(), in ticks
    ostable,     \* the OS process table, in enumeration order
    cores,       \* what psutil.cpu_count() reports
    pcache,      \* _process_cache
    mcache,      \* _metrics_cache
    threads,     \* the frame each worker thread is executing
    ncalls,      \* service calls started so far
    hist,        \* the service calls that have returned
    conn,        \* where the handler of each websocket stands: "new", "accepting",
                 \* "open", "replying", "gone" or "rejected"
    active_connections,  \* ConnectionManager.active_connections
    subscriptions,       \* ConnectionManager.subscriptions, in insertion order
    mloop,       \* the task running _metrics_loop
    bcast,       \* the broadcast_to_topic call of the loop, while it runs
    inbox,       \* the messages each websocket has been sent, in order
    handler,     \* the locals of the handler of each websocket
    app,         \* the lifespan of the application
    xcast,       \* the broadcast_to_user or broadcast_all call in progress
    last         \* the latest direct call of a registry method, and its outcome

termVars == <<selfPid, parentPid, target, call, resp>>
queryVars == <<details>>
inspVars == <<now, ostable, cores, pcache, mcache, threads, ncalls, hist>>

wsVars == <<conn, active_connections, subscriptions, mloop, bcast, inbox>>

appVars == <<handler, app, xcast, last>>

vars == <<termVars, queryVars, inspVars, wsVars, appVars>>

NoResp == [cred |-> NoCred, pid |-> Wide(0), status |-> 0, detail |-> << >>, success |-> Absent]

NoDetails == [pc |-> "idle", authed |-> FALSE, pid |-> Wide(0), result |-> "none", status |-> 0]

NoTarget == [alive |-> FALSE, name |-> "bash", perm |-> FALSE]

\* call.pc is the position inside terminate_process; log, sent and lookups
\* are what this call has written to the log, the signals it has sent and the
\* psutil.Process lookups it has made; raised is the exception caught by the
\* function's except clauses (if any) and at the position where it was raised;
\* aliveAtEnd is whether the target was alive when the call ended.
IdleCall ==
    [pc |-> "idle", cred |-> NoCred, pid |-> 0, by_user |-> None,
     proc_name |-> NoName, waited |-> 0, result |-> "none", reason |-> << >>,
     raised |-> "none", at |-> "none", log |-> << >>, sent |-> << >>,
     lookups |-> 0, aliveAtEnd |-> FALSE]

Running == call.pc \in {"start", "lookup", "name", "terminate", "wait1", "kill", "wait2"}
Ended == call.pc \in {"returned", "raised"}

\* the worker threads: the pool of the hproc routes and the pool of the
\* metrics loop
HprocWorkers == {"h1", "h2"}
WsWorkers == {"w1"}
Workers == HprocWorkers \cup WsWorkers

\* the clock starts late enough for the timestamp 0 of an empty slot to be old
StartOfTime == PROCESS_CACHE_TTL
EndOfTime == StartOfTime + MaxTicks

\* one process of the OS table: its raw cpu reading, its memory percent, what
\* the two readings raise, and whether it is gone before process_iter yields it
OsProc(pid, name, raw, mem) ==
    [pid |-> pid, name |-> name, raw |-> raw, mem |-> mem,
     cpuErr |-> "ok", memErr |-> "ok", gone |-> FALSE]

\* what psutil.cpu_percent(interval=None) and psutil.virtual_memory().percent
\* report
CpuReadings == {25}
MemReadings == {50}

TableA == << OsProc(1, "init", 0, 1), OsProc(2, "bash", 50, 3) >>
TableB == << OsProc(2, "bash", 150, 3), OsProc(3, "python", 20, 5) >>

EmptySlot == [data |-> Nothing, timestamp |-> 0, dataBy |-> 0, tsBy |-> 0]

\* A frame: the operation ("list" for list_processes, "metrics" for
\* get_system_metrics), the position in it, and its locals procs, cpu, mem
\* and ret. The other fields record what the call observed: for its
\* list_processes part, when it looked the slot up and the calls that had
\* returned by then (lMade, lAfter), the call that wrote the timestamp it
\* tested (lTsBy), whether it was served from the slot or enumerated (lHit,
\* lEnum); likewise mTsBy and mSampled for the metrics slot.
IdleFrame ==
    [op |-> "idle", pc |-> "idle", id |-> 0, procs |-> << >>, cpu |-> 0, mem |-> 0,
     ret |-> Nothing,
     lMade |-> 0, lAfter |-> {}, lTsBy |-> 0, lHit |-> FALSE, lEnum |-> FALSE,
     mTsBy |-> 0, mSampled |-> FALSE]

\* what is remembered of a call that has returned
Returned(f, t) ==
    [id |-> f.id, op |-> f.op, procs |-> f.procs, ret |-> f.ret, returnedAt |-> t,
     lEnum |-> f.lEnum, mSampled |-> f.mSampled]

InitTerm ==
    /\ selfPid \in 1 .. MaxPid
    /\ parentPid \in (0 .. MaxPid) \ {selfPid}
    /\ target = NoTarget
    /\ call = IdleCall
    /\ resp = NoResp
    /\ details = NoDetails

\* the inspector after import: both slots empty, no call running
InitInspector ==
    /\ now = StartOfTime
    /\ pcache = EmptySlot
    /\ mcache = EmptySlot
    /\ threads = [t \in Workers |-> IdleFrame]
    /\ ncalls = 0
    /\ hist = {}

\* ------------------------------------------------------------ websockets
\* topics.py
METRICS_HOST == "metrics.host"
VPROC_EVENTS == "vproc.events"
FS_EVENTS == "fs.events"
ALL_TOPICS == {METRICS_HOST, VPROC_EVENTS, FS_EVENTS}

\* the websocket objects, the user whose client opens each one where the
\* credential is not left open, and the user each one authenticated as
Handles == {"c1", "c2", "c3"}
ClientOf(ws) == IF ws = "c3" THEN "u2" ELSE "u1"
UserOf(ws) == handler[ws].cred.sub

\* a dict with no key
EmptyDict == [k \in {} |-> << >>]

\* the keys of subscriptions, in insertion order, and the index of a key
SubKeys(subs) == [i \in 1 .. Len(subs) |-> subs[i].ws]
SubIndex(subs, ws) ==
    IF \E i \in 1 .. Len(subs) : subs[i].ws = ws
    THEN CHOOSE i \in 1 .. Len(subs) : subs[i].ws = ws
    ELSE 0

\* the connections whose topic set holds the topic
Subscribers(subs, topic) ==
    { subs[i].ws : i \in { j \in 1 .. Len(subs) : topic \in subs[j].topics } }

\* variant: the iteration stops at every entry, whatever its topic set
NextSubscriber_IgnoreTopics(subs, from, topic) ==
    IF from <= Len(subs) THEN from ELSE 0

\* the first entry at or after position from whose topic set holds the
\* topic, 0 when the iteration is exhausted first
NextSubscriber(subs, from, topic) ==
    LET later == { i \in from .. Len(subs) : topic \in subs[i].topics }
    IN  IF later = {} THEN 0 ELSE CHOOSE i \in later : \A j \in later : i <= j

\* no broadcast_to_topic call is running
NoBroadcast ==
    [active |-> FALSE, pos |-> 0, to |-> "", size |-> 0, cycle |-> 0,
     targets |-> {}, failed |-> {}, sent |-> 0]

\* the metrics loop, suspended in asyncio.sleep. cycle counts the wake-ups;
\* woke records the subscribers of the topic at each wake-up, sampled the
\* cycles that dispatched get_system_metrics, done the broadcasts that ended.
SleepingLoop ==
    [pc |-> "sleeping", cycle |-> 0, callId |-> 0,
     woke |-> {}, sampled |-> {}, done |-> {}]

\* no frame received yet
NoFrame == [kind |-> "none", action |-> Absent, topic |-> Absent]

\* the handler of a websocket before its first step: the credential of the
\* channel, the close code the server sent, the reply being sent, the frame
\* received last, the frames received and how the receive loop ended; and of
\* the reply sent last, the messages the client had when its send was issued
\* (at), the iteration of the loop whose send to this websocket was in
\* flight then (behind, 0 for none) and its place among the messages of the
\* client once it has arrived (pos, 0 before)
NewHandler ==
    [cred |-> NoCred, code |-> 0, reply |-> Nothing, frame |-> NoFrame,
     msgs |-> 0, exit |-> "", at |-> 0, behind |-> 0, pos |-> 0]

\* the loop tasks of a manager whose start and stop methods are called any
\* number of times: _metrics_task (0 is None), the tasks created so far, each
\* unborn, sleeping, working or done, the task whose cancellation is
\* requested (0 for none), whether a stop call is awaiting its task, and the
\* latest call that returned
NoLoops ==
    [task |-> 0, tasks |-> [id \in {} |-> ""], cancel |-> 0, stop |-> "idle", returned |-> ""]

\* the application between startup and shutdown: where lifespan stands, the
\* cancellation of the loop task (none, requested, delivered), where the loop
\* was when it was delivered, whether the startup connected the database
\* and whether the connection is open
Serving(db_connected) ==
    [pc |-> "serving", cancel |-> "none", stoppedAt |-> "",
     db_connected |-> db_connected, db |-> db_connected, loops |-> NoLoops]

\* no broadcast_to_user or broadcast_all call is running
NoXcast ==
    [active |-> FALSE, kind |-> "", user |-> "", pos |-> 0, idx |-> 0, to |-> "",
     size |-> 0, detached |-> FALSE, calls |-> 0, raised |-> FALSE, failed |-> {},
     sent |-> 0]

\* no registry method called directly yet
NoCall ==
    [op |-> "", ws |-> "", user |-> "", topic |-> "", registered |-> FALSE,
     changed |-> FALSE, raised |-> FALSE]

InitApp ==
    /\ handler = [ws \in Handles |-> NewHandler]
    /\ app = Serving(TRUE)
    /\ xcast = NoXcast
    /\ last = NoCall

\* the manager after construction, the loop started by the startup hook
InitWs ==
    /\ InitApp
    /\ conn = [ws \in Handles |-> "new"]
    /\ active_connections = << >>
    /\ subscriptions = << >>
    /\ mloop = SleepingLoop
    /\ bcast = NoBroadcast
    /\ inbox = [ws \in Handles |-> << >>]

Init ==
    /\ InitTerm
    /\ InitInspector
    /\ InitWs
    /\ ostable = TableA
    /\ cores = Some(2)

\* -------------------------------------------------------------- the route
\* POST /hproc/terminate/{pid}: the admin dependency, validate_pid, and the
\* dispatch of service.terminate_process to the worker pool.  entry is the
\* process-table entry the OS holds for pid at that moment.
Request(cred, pid, entry) ==
    /\ call.pc = "idle"
    /\ LET auth == AuthError(cred)
           valid == validate_pid(pid)
           refuse(status, detail) ==
               /\ resp' = [cred |-> cred, pid |-> pid, status |-> status,
                           detail |-> detail, success |-> Absent]
               /\ UNCHANGED <<call, target>>
       IN  IF auth.status # 0 THEN refuse(auth.status, auth.detail)
           ELSE IF ~HasAdminRole(cred.roles)
               THEN refuse(HTTP_403_FORBIDDEN, <<"Admin", "access", "required">>)
           ELSE IF valid.status # 0 THEN refuse(valid.status, valid.detail)
           ELSE /\ call' = [IdleCall EXCEPT !.pc = "start", !.cred = cred,
                                            !.pid = Narrow(pid), !.by_user = cred.username]
                /\ target' = entry
                /\ resp' = NoResp
    /\ UNCHANGED <<selfPid, parentPid, queryVars, inspVars, wsVars, appVars>>

\* the route resumes when the worker's future resolves
Respond ==
    /\ Ended
    /\ resp' =
         IF call.result = "True"
             THEN [cred |-> call.cred, pid |-> Wide(call.pid), status |-> HTTP_200_OK,
                   detail |-> <<"Process", "terminated", "successfully">>,
                   success |-> "True"]
         ELSE IF call.result = "TerminationDenied"
             THEN [cred |-> call.cred, pid |-> Wide(call.pid), status |-> HTTP_403_FORBIDDEN,
                   detail |-> call.reason, success |-> Absent]
         ELSE [cred |-> call.cred, pid |-> Wide(call.pid), status |-> 500,
               detail |-> <<"Internal", "Server", "Error">>, success |-> Absent]
    /\ call' = IdleCall
    /\ UNCHANGED <<selfPid, parentPid, target, queryVars, inspVars, wsVars, appVars>>

\* ------------------------------------------------------ terminate_process
\* the call ends by raising e
Raises(c, e) ==
    [c EXCEPT !.pc = "raised", !.result = e.cls, !.reason = e.text,
              !.aliveAtEnd = target.alive]

\* the call ends by returning True
Returns(c) ==
    [c EXCEPT !.pc = "returned", !.result = "True", !.aliveAtEnd = target.alive]

\* exception e raised inside the try block at the current position: the
\* matching except clause logs and raises
Caught(c, e) ==
    Raises([c EXCEPT !.log = Append(@, HandlerLog(e, c.pid)),
                     !.raised = e.cls, !.at = c.pc],
           HandlerRaise(e, c.pid))

\* the checks on the pid made before the try block
CheckPolicy ==
    /\ call.pc = "start"
    /\ LET rule == PolicyRule(call.pid, selfPid, parentPid)
       IN  call' =
             IF rule = "none" THEN [call EXCEPT !.pc = "lookup"]
             ELSE Raises([call EXCEPT !.log = Append(@, PolicyLog(rule, call.pid))],
                         PolicyDenial(rule, call.pid))
    /\ UNCHANGED <<selfPid, parentPid, target, resp, queryVars, inspVars, wsVars, appVars>>

\* proc = psutil.Process(pid)
Lookup(fail) ==
    /\ call.pc = "lookup"
    /\ LET c == [call EXCEPT !.lookups = @ + 1]
       IN  call' =
             IF fail THEN Caught(c, OSError)
             ELSE IF ~target.alive THEN Caught(c, NoSuchProcess(call.pid))
             ELSE [c EXCEPT !.pc = "name"]
    /\ UNCHANGED <<selfPid, parentPid, target, resp, queryVars, inspVars, wsVars, appVars>>

\* proc_name = proc.name(), and the critical-name check
ResolveName(fail) ==
    /\ call.pc = "name"
    /\ call' =
         IF fail THEN Caught(call, OSError)
         ELSE IF ~target.alive THEN Caught(call, NoSuchProcess(call.pid))
         ELSE LET c == [call EXCEPT !.proc_name = target.name]
              IN  IF IsCriticalName(target.name)
                      THEN Caught([c EXCEPT !.log =
                                      Append(@, CriticalNameLog(c.pid, target.name))],
                                  CriticalNameDenial(target.name))
                      ELSE [c EXCEPT !.pc = "terminate"]
    /\ UNCHANGED <<selfPid, parentPid, target, resp, queryVars, inspVars, wsVars, appVars>>

\* a signal sent to the target: psutil raises when the target is gone or the
\* service may not signal it
SendSignal(sig, next, fail) ==
    /\ call' =
         IF fail THEN Caught(call, OSError)
         ELSE IF ~target.alive THEN Caught(call, NoSuchProcess(call.pid))
         ELSE IF ~target.perm THEN Caught(call, AccessDenied(call.pid))
         ELSE [call EXCEPT !.pc = next, !.waited = 0,
                           !.sent = Append(@, [pid |-> call.pid, sig |-> sig])]
    /\ UNCHANGED <<selfPid, parentPid, target, resp, queryVars, inspVars, wsVars, appVars>>

\* proc.terminate()
SendTerminate(fail) ==
    /\ call.pc = "terminate"
    /\ SendSignal("SIGTERM", "wait1", fail)

\* proc.kill()
SendKill(fail) ==
    /\ call.pc = "kill"
    /\ SendSignal("SIGKILL", "wait2", fail)

\* proc.wait(timeout=3) returns: the target has exited
GracefulExit ==
    /\ call.pc = "wait1"
    /\ ~target.alive
    /\ call' = Returns([call EXCEPT !.log =
                   Append(@, info_emoji(MsgTerminated, call.pid, call.by_user, "success"))])
    /\ UNCHANGED <<selfPid, parentPid, target, resp, queryVars, inspVars, wsVars, appVars>>

\* variant: the first wait gives up without waiting
GracefulTimeout_AtOnce ==
    /\ call.pc = "wait1"
    /\ target.alive
    /\ call' = [call EXCEPT !.pc = "kill"]
    /\ UNCHANGED <<selfPid, parentPid, target, resp, queryVars, inspVars, wsVars, appVars>>

\* proc.wait(timeout=3) raises TimeoutExpired: caught by the inner except
GracefulTimeout ==
    /\ call.pc = "wait1"
    /\ target.alive
    /\ call.waited = GRACEFUL_TIMEOUT
    /\ call' = [call EXCEPT !.pc = "kill"]
    /\ UNCHANGED <<selfPid, parentPid, target, resp, queryVars, inspVars, wsVars, appVars>>

\* proc.wait(timeout=2) returns: the target has exited
ForcedExit ==
    /\ call.pc = "wait2"
    /\ ~target.alive
    /\ call' = Returns([call EXCEPT !.log =
                   Append(@, info_emoji(MsgKilled, call.pid, call.by_user, "success"))])
    /\ UNCHANGED <<selfPid, parentPid, target, resp, queryVars, inspVars, wsVars, appVars>>

\* variant: the expiry of the second wait is swallowed and reported as success
ForcedTimeout_Success ==
    /\ call.pc = "wait2"
    /\ target.alive
    /\ call.waited = KILL_TIMEOUT
    /\ call' = Returns([call EXCEPT !.log =
                   Append(@, info_emoji(MsgKilled, call.pid, call.by_user, "success"))])
    /\ UNCHANGED <<selfPid, parentPid, target, resp, queryVars, inspVars, wsVars, appVars>>

\* proc.wait(timeout=2) raises TimeoutExpired inside the inner except clause
ForcedTimeout ==
    /\ call.pc = "wait2"
    /\ target.alive
    /\ call.waited = KILL_TIMEOUT
    /\ call' = Caught(call, TimeoutExpired(KILL_TIMEOUT, call.pid))
    /\ UNCHANGED <<selfPid, parentPid, target, resp, queryVars, inspVars, wsVars, appVars>>

\* either wait fails with an OS error of another class
WaitFails ==
    /\ call.pc \in {"wait1", "wait2"}
    /\ call' = Caught(call, OSError)
    /\ UNCHANGED <<selfPid, parentPid, target, resp, queryVars, inspVars, wsVars, appVars>>

\* ------------------------------------------------------- the environment
\* one time unit passes while the service waits for the target
Tick ==
    /\ call.pc \in {"wait1", "wait2"}
    /\ target.alive
    /\ call.waited < (IF call.pc = "wait1" THEN GRACEFUL_TIMEOUT ELSE KILL_TIMEOUT)
    /\ call' = [call EXCEPT !.waited = @ + 1]
    /\ UNCHANGED <<selfPid, parentPid, target, resp, queryVars, inspVars, wsVars, appVars>>

\* the target exits, of its own accord or because of a signal
ProcExit ==
    /\ Running
    /\ target.alive
    /\ target' = [target EXCEPT !.alive = FALSE]
    /\ UNCHANGED <<selfPid, parentPid, call, resp, queryVars, inspVars, wsVars, appVars>>

\* ------------------------------------------------- the process-detail query
\* GET /hproc/details/{pid}: the authentication dependency, validate_pid, and
\* the dispatch of service.get_process_details to the worker pool
DetailsRequest(cred, pid) ==
    /\ details.pc \in {"idle", "responded"}
    /\ LET auth == AuthError(cred)
           valid == validate_pid(pid)
       IN  details' =
             IF auth.status # 0
                 THEN [pc |-> "responded", authed |-> FALSE, pid |-> pid,
                       result |-> "none", status |-> auth.status]
             ELSE IF valid.status # 0
                 THEN [pc |-> "responded", authed |-> TRUE, pid |-> pid,
                       result |-> "none", status |-> valid.status]
             ELSE [pc |-> "dispatched", authed |-> TRUE, pid |-> pid,
                   result |-> "none", status |-> 0]
    /\ UNCHANGED <<termVars, inspVars, wsVars, appVars>>

\* service.get_process_details on a worker: the process information, or None
\* when psutil reports the process gone or inaccessible
DetailsRun(outcome) ==
    /\ details.pc = "dispatched"
    /\ details' = [details EXCEPT !.pc = "ran",
                       !.result = IF outcome = "found" THEN "info" ELSE None]
    /\ UNCHANGED <<termVars, inspVars, wsVars, appVars>>

\* the route resumes: the information, or 404
DetailsRespond ==
    /\ details.pc = "ran"
    /\ details' = [details EXCEPT !.pc = "responded",
                       !.status = IF details.result = None THEN 404 ELSE HTTP_200_OK]
    /\ UNCHANGED <<termVars, inspVars, wsVars, appVars>>

\* ---------------------------------------------------------------------
\* The process inspector: list_processes and get_system_metrics, run on
\* worker threads. A step is the code between two accesses to a cache slot
\* or to the OS.
\* ---------------------------------------------------------------------

\* a worker returns the value of its call to the caller
Return(t, f) ==
    /\ hist' = hist \cup { Returned(f, now) }
    /\ threads' = [threads EXCEPT ![t] = IdleFrame]

\* a route hands list_processes to a free worker of its pool
StartList(t) ==
    /\ t \in HprocWorkers
    /\ threads[t].op = "idle"
    /\ ncalls < MaxCalls
    /\ ncalls' = ncalls + 1
    /\ threads' = [threads EXCEPT ![t] =
                       [IdleFrame EXCEPT !.op = "list", !.pc = "L_lookup", !.id = ncalls + 1]]
    /\ UNCHANGED <<termVars, queryVars, wsVars, appVars, now, ostable, cores, pcache, mcache, hist>>

\* a route, or the metrics loop, hands get_system_metrics to a free worker
StartMetrics(t) ==
    /\ threads[t].op = "idle"
    /\ ncalls < MaxCalls
    /\ ncalls' = ncalls + 1
    /\ threads' = [threads EXCEPT ![t] =
                       [IdleFrame EXCEPT !.op = "metrics", !.pc = "M_lookup", !.id = ncalls + 1]]
    /\ UNCHANGED <<termVars, queryVars, wsVars, appVars, now, ostable, cores, pcache, mcache, hist>>

\* _get_cached_processes: if data is not None and time.time() - timestamp <
\* ttl. The two reads are one step: data is never None again once it is set.
ListLookup(t) ==
    LET f == threads[t]
        fresh == /\ pcache.data # Nothing
                 /\ CacheFresh(now, pcache.timestamp, PROCESS_CACHE_TTL)
    IN
    /\ f.pc = "L_lookup"
    /\ threads' = [threads EXCEPT ![t] =
                       [f EXCEPT !.pc = IF fresh THEN "L_ret" ELSE "L_enum",
                                 !.lMade = now, !.lAfter = { h.id : h \in hist },
                                 !.lTsBy = pcache.tsBy, !.lHit = fresh]]
    /\ UNCHANGED <<termVars, queryVars, wsVars, appVars, now, ostable, cores, pcache, mcache, ncalls, hist>>

\* list_processes is over: its caller is the route, or get_system_metrics
ListReturn(t, f) ==
    IF f.op = "list"
    THEN Return(t, [f EXCEPT !.ret = Some(f.procs)])
    ELSE /\ threads' = [threads EXCEPT ![t] = [f EXCEPT !.pc = "M_store"]]
         /\ UNCHANGED hist

\* _get_cached_processes: return _process_cache["data"]
ListReturnCached(t) ==
    LET f == threads[t] IN
    /\ f.pc = "L_ret"
    /\ ListReturn(t, [f EXCEPT !.procs = pcache.data[1]])
    /\ UNCHANGED <<termVars, queryVars, wsVars, appVars, now, ostable, cores, pcache, mcache, ncalls>>

\* list_processes: the loop over psutil.process_iter
ListEnumerate(t) ==
    LET f == threads[t] IN
    /\ f.pc = "L_enum"
    /\ threads' = [threads EXCEPT ![t] =
                       [f EXCEPT !.pc = "L_wdata", !.lEnum = TRUE,
                                 !.procs = EnumerateProcesses(ostable, cores)]]
    /\ UNCHANGED <<termVars, queryVars, wsVars, appVars, now, ostable, cores, pcache, mcache, ncalls, hist>>

\* _cache_processes: _process_cache["data"] = data
ListWriteData(t) ==
    LET f == threads[t] IN
    /\ f.pc = "L_wdata"
    /\ pcache' = [pcache EXCEPT !.data = Some(f.procs), !.dataBy = f.id]
    /\ threads' = [threads EXCEPT ![t] =
                       [f EXCEPT !.pc = "L_wts"]]
    /\ UNCHANGED <<termVars, queryVars, wsVars, appVars, now, ostable, cores, mcache, ncalls, hist>>

\* _cache_processes: _process_cache["timestamp"] = time.time(); return procs
ListWriteTs(t) ==
    LET f == threads[t] IN
    /\ f.pc = "L_wts"
    /\ pcache' = [pcache EXCEPT !.timestamp = now, !.tsBy = f.id]
    /\ ListReturn(t, f)
    /\ UNCHANGED <<termVars, queryVars, wsVars, appVars, now, ostable, cores, mcache, ncalls>>

\* get_system_metrics: if data is not None and time.time() - timestamp < ttl;
\* on a miss psutil.cpu_percent, psutil.virtual_memory, and the call of
\* list_processes
MetricsLookup(t, cpu, mem) ==
    LET f == threads[t]
        fresh == /\ mcache.data # Nothing
                 /\ CacheFresh(now, mcache.timestamp, METRICS_CACHE_TTL)
    IN
    /\ f.pc = "M_lookup"
    /\ threads' = [threads EXCEPT ![t] =
                       IF fresh
                       THEN [f EXCEPT !.pc = "M_ret", !.mTsBy = mcache.tsBy]
                       ELSE [f EXCEPT !.pc = "L_lookup", !.mSampled = TRUE,
                                      !.cpu = cpu, !.mem = mem]]
    /\ UNCHANGED <<termVars, queryVars, wsVars, appVars, now, ostable, cores, pcache, mcache, ncalls, hist>>

\* get_system_metrics: the cache is stale and a psutil reading raises; the
\* call ends with the exception
MetricsRaise(t) ==
    LET f == threads[t]
        fresh == /\ mcache.data # Nothing
                 /\ CacheFresh(now, mcache.timestamp, METRICS_CACHE_TTL)
    IN
    /\ f.pc = "M_lookup"
    /\ ~fresh
    /\ Return(t, [f EXCEPT !.ret = Nothing])
    /\ UNCHANGED <<termVars, queryVars, wsVars, appVars, now, ostable, cores, pcache, mcache, ncalls>>

\* get_system_metrics: return _metrics_cache["data"]
MetricsReturnCached(t) ==
    LET f == threads[t] IN
    /\ f.pc = "M_ret"
    /\ Return(t, [f EXCEPT !.ret = mcache.data])
    /\ UNCHANGED <<termVars, queryVars, wsVars, appVars, now, ostable, cores, pcache, mcache, ncalls>>

\* variant: the ranking enumerates the OS again instead of using the list
\* list_processes returned
MetricsStore_Reenumerate(t) ==
    LET f == threads[t]
        result == MetricsResult(f.cpu, f.mem, EnumerateProcesses(ostable, cores))
    IN
    /\ f.pc = "M_store"
    /\ mcache' = [mcache EXCEPT !.data = Some(result), !.dataBy = f.id]
    /\ threads' = [threads EXCEPT ![t] =
                       [f EXCEPT !.pc = "M_wts", !.ret = Some(result)]]
    /\ UNCHANGED <<termVars, queryVars, wsVars, appVars, now, ostable, cores, pcache, ncalls, hist>>

\* get_system_metrics: the sort, the result, _metrics_cache["data"] = result
MetricsStore(t) ==
    LET f == threads[t]
        result == MetricsResult(f.cpu, f.mem, f.procs)
    IN
    /\ f.pc = "M_store"
    /\ mcache' = [mcache EXCEPT !.data = Some(result), !.dataBy = f.id]
    /\ threads' = [threads EXCEPT ![t] =
                       [f EXCEPT !.pc = "M_wts", !.ret = Some(result)]]
    /\ UNCHANGED <<termVars, queryVars, wsVars, appVars, now, ostable, cores, pcache, ncalls, hist>>

\* get_system_metrics: _metrics_cache["timestamp"] = time.time(); return result
MetricsWriteTs(t) ==
    LET f == threads[t] IN
    /\ f.pc = "M_wts"
    /\ mcache' = [mcache EXCEPT !.timestamp = now, !.tsBy = f.id]
    /\ Return(t, f)
    /\ UNCHANGED <<termVars, queryVars, wsVars, appVars, now, ostable, cores, pcache, ncalls>>

\* time passes
ClockTick ==
    /\ now < EndOfTime
    /\ now' = now + 1
    /\ UNCHANGED <<termVars, queryVars, wsVars, appVars, ostable, cores, pcache, mcache, threads, ncalls, hist>>

\* processes start, exit, and use the cpu
OsChange(table) ==
    /\ table # ostable
    /\ ostable' = table
    /\ UNCHANGED <<termVars, queryVars, wsVars, appVars, now, cores, pcache, mcache, threads, ncalls, hist>>

\* ---------------------------------------------------------------------
\* The enumeration alone: one worker lists a table whose processes have
\* every kind of reading, on machines of every core count.
\* ---------------------------------------------------------------------

RawReadings == {-50, 0, 50, 250, 450}
CoreReadings == {Nothing, Some(0), Some(1), Some(2), Some(4)}

\* the first process of the table has every reading and every failure
ProbeProcs ==
    { [pid |-> 1, name |-> "bash", raw |-> raw, mem |-> 3,
       cpuErr |-> cpuErr, memErr |-> memErr, gone |-> gone] :
          raw \in RawReadings,
          cpuErr \in {"ok"} \cup ReadingErrors,
          memErr \in {"ok", "AccessDenied"},
          gone \in BOOLEAN }

\* the second one is healthy, or gone, or fails both readings
OtherProcs ==
    { OsProc(2, "init", 50, 1),
      [OsProc(2, "init", 50, 1) EXCEPT !.gone = TRUE],
      [OsProc(2, "init", 50, 1) EXCEPT !.cpuErr = "NoSuchProcess", !.memErr = "NoSuchProcess"] }

InitEnum ==
    /\ InitTerm
    /\ InitInspector
    /\ InitWs
    /\ selfPid = 1
    /\ parentPid = 0
    /\ \E a \in ProbeProcs, b \in OtherProcs : ostable = <<a, b>>
    /\ cores \in CoreReadings

NextEnum ==
    \/ StartList("h1")
    \/ ListLookup("h1")
    \/ ListReturnCached("h1")
    \/ ListEnumerate("h1")
    \/ ListWriteData("h1")
    \/ ListWriteTs("h1")

SpecEnum == InitEnum /\ [][NextEnum]_vars

\* ---------------------------------------------------------------------
\* The ranking alone: the worker of the metrics loop computes the metrics
\* of every table of up to MaxProcs processes. No time passes, and nothing
\* else fills the process cache, so the list is always enumerated.
\* ---------------------------------------------------------------------

RankReadings == {10, 20, 30}

\* the tables of n processes, pid i at position i
RankTables(n) ==
    { [i \in 1 .. n |-> OsProc(i, "bash", raws[i], 1)] : raws \in [1 .. n -> RankReadings] }

InitTop ==
    /\ InitTerm
    /\ InitInspector
    /\ InitWs
    /\ selfPid = 1
    /\ parentPid = 0
    /\ \E n \in 0 .. MaxProcs : ostable \in RankTables(n)
    /\ cores = Some(1)

NextTop ==
    \/ StartMetrics("w1")
    \/ \E cpu \in CpuReadings, mem \in MemReadings : MetricsLookup("w1", cpu, mem)
    \/ MetricsReturnCached("w1")
    \/ ListLookup("w1")
    \/ ListEnumerate("w1")
    \/ ListWriteData("w1")
    \/ ListWriteTs("w1")
    \/ MetricsStore("w1")
    \/ MetricsWriteTs("w1")

SpecTop == InitTop /\ [][NextTop]_vars

\* ---------------------------------------------------------------------
\* The process cache under concurrency: the two workers of the routes run
\* list_processes while time passes and the OS table changes.
\* ---------------------------------------------------------------------

InitCache ==
    /\ InitTerm
    /\ InitInspector
    /\ InitWs
    /\ selfPid = 1
    /\ parentPid = 0
    /\ ostable = TableA
    /\ cores = Some(2)

ListStep(t) ==
    \/ ListLookup(t)
    \/ ListReturnCached(t)
    \/ ListEnumerate(t)
    \/ ListWriteData(t)
    \/ ListWriteTs(t)

NextList ==
    \/ \E t \in HprocWorkers : StartList(t)
    \/ \E t \in HprocWorkers : ListStep(t)
    \/ ClockTick
    \/ OsChange(TableB)

SpecList == InitCache /\ [][NextList]_vars

\* ---------------------------------------------------------------------
\* Both caches under concurrency: the worker of the metrics loop runs
\* get_system_metrics while a worker of the routes runs list_processes.
\* ---------------------------------------------------------------------

NextMetrics ==
    \/ StartList("h1")
    \/ ListStep("h1")
    \/ StartMetrics("w1")
    \/ \E cpu \in CpuReadings, mem \in MemReadings : MetricsLookup("w1", cpu, mem)
    \/ MetricsReturnCached("w1")
    \/ ListStep("w1")
    \/ MetricsStore("w1")
    \/ MetricsWriteTs("w1")
    \/ ClockTick
    \/ OsChange(TableB)

SpecMetrics == InitCache /\ [][NextMetrics]_vars

\* ---------------------------------------------------------------------
\* The connection manager and the metrics loop. All of it runs on the event
\* loop: a step is the code between two awaits.
\* ---------------------------------------------------------------------

\* list.remove: the list without the first occurrence of x
RemoveFirst(seq, x) ==
    IF \E i \in 1 .. Len(seq) : seq[i] = x
    THEN LET k == CHOOSE i \in 1 .. Len(seq) :
                      seq[i] = x /\ \A j \in 1 .. i - 1 : seq[j] # x
         IN  SubSeq(seq, 1, k - 1) \o SubSeq(seq, k + 1, Len(seq))
    ELSE seq

\* del subscriptions[ws]
RemoveKey(subs, ws) == SelectSeq(subs, LAMBDA e : e.ws # ws)

\* the position of a user in active_connections, 0 when it has no key
UserIndex(ac, u) ==
    IF \E i \in 1 .. Len(ac) : ac[i].user = u
    THEN CHOOSE i \in 1 .. Len(ac) : ac[i].user = u
    ELSE 0

\* the websockets listed under some user
Listed(ac) ==
    UNION { { ac[i].conns[j] : j \in 1 .. Len(ac[i].conns) } : i \in 1 .. Len(ac) }

\* is the websocket in one of the two maps
Registered(ws) ==
    SubIndex(subscriptions, ws) # 0 \/ ws \in Listed(active_connections)

\* variant: connect lists the websocket and leaves its topic set for later
connect_ListsOnly(ac, subs, ws, user_id) ==
    LET k == UserIndex(ac, user_id)
    IN  [active_connections |->
             IF k = 0 THEN Append(ac, [user |-> user_id, conns |-> <<ws>>])
             ELSE [ac EXCEPT ![k].conns = Append(@, ws)],
         subscriptions |-> subs,
         raised |-> FALSE]

\* connect, after the accept: the websocket is listed under its user and
\* given an empty topic set
connect(ac, subs, ws, user_id) ==
    LET k == UserIndex(ac, user_id)
        j == SubIndex(subs, ws)
    IN  [active_connections |->
             IF k = 0 THEN Append(ac, [user |-> user_id, conns |-> <<ws>>])
             ELSE [ac EXCEPT ![k].conns = Append(@, ws)],
         subscriptions |->
             IF j = 0 THEN Append(subs, [ws |-> ws, topics |-> {}])
             ELSE [subs EXCEPT ![j].topics = {}],
         raised |-> FALSE]

\* variant: the entries are deleted without the membership tests
disconnect_Unguarded(ac, subs, ws, user_id) ==
    LET k == UserIndex(ac, user_id)
        rest == IF k = 0 THEN << >> ELSE RemoveFirst(ac[k].conns, ws)
    IN  [active_connections |->
             IF k = 0 THEN ac
             ELSE IF rest = << >> THEN SubSeq(ac, 1, k - 1) \o SubSeq(ac, k + 1, Len(ac))
             ELSE [ac EXCEPT ![k].conns = rest],
         subscriptions |-> RemoveKey(subs, ws),
         raised |-> (k = 0 \/ SubIndex(subs, ws) = 0)]

\* variant: the topic set of the websocket is left in subscriptions
disconnect_KeepsTopics(ac, subs, ws, user_id) ==
    LET k == UserIndex(ac, user_id)
        rest == IF k = 0 THEN << >> ELSE RemoveFirst(ac[k].conns, ws)
    IN  [active_connections |->
             IF k = 0 THEN ac
             ELSE IF rest = << >> THEN SubSeq(ac, 1, k - 1) \o SubSeq(ac, k + 1, Len(ac))
             ELSE [ac EXCEPT ![k].conns = rest],
         subscriptions |-> subs,
         raised |-> FALSE]

\* disconnect: every remove and del is behind a membership test, so that
\* nothing is raised
disconnect(ac, subs, ws, user_id) ==
    LET k == UserIndex(ac, user_id)
        rest == IF k = 0 THEN << >> ELSE RemoveFirst(ac[k].conns, ws)
    IN  [active_connections |->
             IF k = 0 THEN ac
             ELSE IF rest = << >> THEN SubSeq(ac, 1, k - 1) \o SubSeq(ac, k + 1, Len(ac))
             ELSE [ac EXCEPT ![k].conns = rest],
         subscriptions |-> RemoveKey(subs, ws),
         raised |-> FALSE]

\* variant: subscribe gives an unknown websocket a topic set of its own
subscribe_CreatesEntry(subs, ws, topic) ==
    LET k == SubIndex(subs, ws) IN
    IF k # 0 THEN [subs EXCEPT ![k].topics = subs[k].topics \cup {topic}]
    ELSE Append(subs, [ws |-> ws, topics |-> {topic}])

\* subscribe
subscribe(subs, ws, topic) ==
    LET k == SubIndex(subs, ws) IN
    IF k # 0 THEN [subs EXCEPT ![k].topics = subs[k].topics \cup {topic}]
    ELSE subs

\* variant: the topic stays in the set
unsubscribe_KeepsTopic(subs, ws, topic) == subs

\* unsubscribe
unsubscribe(subs, ws, topic) ==
    LET k == SubIndex(subs, ws) IN
    IF k # 0 THEN [subs EXCEPT ![k].topics = subs[k].topics \ {topic}]
    ELSE subs

\* the token the login route issues to a user
UserCred(u) == CHOOSE c \in Creds : c.kind = "jwt" /\ c.sub = u /\ c.username # None

\* variant: a token is accepted as soon as its signature is good
TokenAccepted_AnySigned(cred) == cred.kind = "jwt"

\* websocket_endpoint: the token is there and decode_token raises nothing
TokenAccepted(cred) == cred.kind # "none" /\ AuthError(cred).status = 0

\* websocket_endpoint, up to its first await: without a token that
\* decode_token accepts the websocket is closed with the code of the
\* endpoint and the handler returns, otherwise manager.connect awaits the
\* accept
Open(ws, cred) ==
    /\ conn[ws] = "new"
    /\ IF TokenAccepted(cred)
       THEN /\ conn' = [conn EXCEPT ![ws] = "accepting"]
            /\ handler' = [handler EXCEPT ![ws].cred = cred]
       ELSE /\ conn' = [conn EXCEPT ![ws] = "rejected"]
            /\ handler' = [handler EXCEPT ![ws].cred = cred, ![ws].code = WS_CLOSE_UNAUTHORIZED]
    /\ UNCHANGED <<termVars, queryVars, inspVars, active_connections, subscriptions,
                   mloop, bcast, inbox, app, xcast, last>>

\* manager.connect: the accept is over and the websocket is registered; the
\* handler awaits its first frame
Connect(ws) ==
    LET r == connect(active_connections, subscriptions, ws, UserOf(ws)) IN
    /\ conn[ws] = "accepting"
    /\ conn' = [conn EXCEPT ![ws] = "open"]
    /\ active_connections' = r.active_connections
    /\ subscriptions' = r.subscriptions
    /\ UNCHANGED <<termVars, queryVars, inspVars, appVars, mloop, bcast, inbox>>

\* the iterators of the broadcasts in progress after disconnect(ws): a dict
\* iterator continues with the entries that follow the one it stands on, a
\* list iterator keeps its index, and a list taken out of the dict is empty
AfterDisconnectAs(ws, u) ==
    LET k == SubIndex(subscriptions, ws)
        ku == UserIndex(active_connections, u)
        emptied == ku # 0 /\ RemoveFirst(active_connections[ku].conns, ws) = << >>
    IN
    /\ bcast' = IF bcast.active /\ k # 0 /\ k <= bcast.pos
                THEN [bcast EXCEPT !.pos = bcast.pos - 1]
                ELSE bcast
    /\ xcast' = IF xcast.active /\ emptied
                THEN IF xcast.kind = "user"
                     THEN [xcast EXCEPT !.detached = @ \/ xcast.user = u]
                     ELSE [xcast EXCEPT !.detached = @ \/ xcast.pos = ku,
                                        !.pos = IF ku <= xcast.pos THEN xcast.pos - 1 ELSE @]
                ELSE xcast

AfterDisconnect(ws) == AfterDisconnectAs(ws, UserOf(ws))

\* the receive loop of the handler ends with the close of the websocket:
\* receive_json raises WebSocketDisconnect and the handler calls disconnect
Disconnect(ws) ==
    LET r == disconnect(active_connections, subscriptions, ws, UserOf(ws)) IN
    /\ conn[ws] = "open"
    /\ conn' = [conn EXCEPT ![ws] = "gone"]
    /\ handler' = [handler EXCEPT ![ws].exit = "close"]
    /\ active_connections' = r.active_connections
    /\ subscriptions' = r.subscriptions
    /\ AfterDisconnect(ws)
    /\ UNCHANGED <<termVars, queryVars, inspVars, mloop, inbox, app, last>>

\* subscribe, for a websocket whose handler runs
Subscribe(ws, topic) ==
    /\ conn[ws] = "open"
    /\ subscriptions' = subscribe(subscriptions, ws, topic)
    /\ UNCHANGED <<termVars, queryVars, inspVars, appVars, conn, active_connections, mloop, bcast, inbox>>

\* unsubscribe, for a websocket whose handler runs
Unsubscribe(ws, topic) ==
    /\ conn[ws] = "open"
    /\ subscriptions' = unsubscribe(subscriptions, ws, topic)
    /\ UNCHANGED <<termVars, queryVars, inspVars, appVars, conn, active_connections, mloop, bcast, inbox>>

\* a JSON value that is not a string
NotAString == "<number>"

\* the frames a client sends: JSON objects with or without an action and a
\* topic, known or not, a JSON array, and text that is not JSON
FrameActions == {"subscribe", "unsubscribe", "ping", "restart", Absent, NotAString}
FrameTopics == {METRICS_HOST, "no.such.topic", Absent, NotAString}
Frames ==
    { [kind |-> "object", action |-> a, topic |-> t] : a \in FrameActions, t \in FrameTopics }
        \cup { [kind |-> k, action |-> Absent, topic |-> Absent] : k \in {"array", "garbage"} }

\* data.get(key) if isinstance(data.get(key), str) else None
StrOrNone(v) == IF v \in {Absent, NotAString} THEN None ELSE v

\* a reply of the handler; cycle is 0, the pushes of the loop count from 1
Reply(type, topic) == [type |-> type, topic |-> topic, cycle |-> 0]

\* variant: a ping is answered only when it names a known topic
Answer_PingNeedsTopic(action, topic) ==
    IF action = "subscribe" /\ topic \in ALL_TOPICS THEN Some(Reply("subscribed", topic))
    ELSE IF action = "unsubscribe" /\ topic \in ALL_TOPICS THEN Some(Reply("unsubscribed", topic))
    ELSE IF action = "ping" /\ topic \in ALL_TOPICS THEN Some(Reply("pong", Absent))
    ELSE Nothing

\* variant: a subscribe or unsubscribe with an unknown topic is answered too
Answer_AnyTopic(action, topic) ==
    IF action = "subscribe" THEN Some(Reply("subscribed", topic))
    ELSE IF action = "unsubscribe" THEN Some(Reply("unsubscribed", topic))
    ELSE IF action = "ping" THEN Some(Reply("pong", Absent))
    ELSE Nothing

\* websocket_endpoint: the reply the branches of the receive loop send
Answer(action, topic) ==
    IF action = "subscribe" /\ topic \in ALL_TOPICS THEN Some(Reply("subscribed", topic))
    ELSE IF action = "unsubscribe" /\ topic \in ALL_TOPICS THEN Some(Reply("unsubscribed", topic))
    ELSE IF action = "ping" THEN Some(Reply("pong", Absent))
    ELSE Nothing

\* variant: only the close of the connection unregisters the websocket
Receive_ErrorSkipsDisconnect(ws, frame) ==
    LET action == StrOrNone(frame.action)
        topic == StrOrNone(frame.topic)
        reply == Answer(action, topic)
        r == disconnect(active_connections, subscriptions, ws, UserOf(ws))
    IN
    /\ conn[ws] = "open"
    /\ handler[ws].msgs < MaxFrames
    /\ IF frame.kind # "object"
       THEN /\ conn' = [conn EXCEPT ![ws] = "gone"]
            /\ handler' = [handler EXCEPT ![ws].frame = frame, ![ws].msgs = @ + 1,
                                          ![ws].exit = "error"]
            /\ UNCHANGED <<active_connections, subscriptions, bcast, xcast>>
       ELSE /\ conn' = [conn EXCEPT ![ws] = IF reply = Nothing THEN "open" ELSE "replying"]
            /\ handler' = [handler EXCEPT ![ws].frame = frame, ![ws].msgs = @ + 1,
                                          ![ws].reply = reply,
                                          ![ws].at = IF reply = Nothing THEN @ ELSE Len(inbox[ws]),
                                          ![ws].behind = IF reply = Nothing THEN @
                                                         ELSE IF bcast.active /\ bcast.to = ws
                                                         THEN bcast.cycle ELSE 0,
                                          ![ws].pos = IF reply = Nothing THEN @ ELSE 0]
            /\ subscriptions' =
                   IF reply = Nothing \/ action = "ping" THEN subscriptions
                   ELSE IF action = "subscribe" THEN subscribe(subscriptions, ws, topic)
                   ELSE unsubscribe(subscriptions, ws, topic)
            /\ UNCHANGED <<active_connections, bcast, xcast>>
    /\ UNCHANGED <<termVars, queryVars, inspVars, mloop, inbox, app, last>>

\* variant: the handler does not await the send of its reply
Receive_ReplyNotAwaited(ws, frame) ==
    LET action == StrOrNone(frame.action)
        topic == StrOrNone(frame.topic)
        reply == Answer(action, topic)
        r == disconnect(active_connections, subscriptions, ws, UserOf(ws))
    IN
    /\ conn[ws] = "open"
    /\ handler[ws].msgs < MaxFrames
    /\ IF frame.kind # "object"
       THEN /\ conn' = [conn EXCEPT ![ws] = "gone"]
            /\ handler' = [handler EXCEPT ![ws].frame = frame, ![ws].msgs = @ + 1,
                                          ![ws].exit = "error"]
            /\ active_connections' = r.active_connections
            /\ subscriptions' = r.subscriptions
            /\ AfterDisconnect(ws)
       ELSE /\ conn' = conn
            /\ handler' = [handler EXCEPT ![ws].frame = frame, ![ws].msgs = @ + 1,
                                          ![ws].reply = reply,
                                          ![ws].at = IF reply = Nothing THEN @ ELSE Len(inbox[ws]),
                                          ![ws].behind = IF reply = Nothing THEN @
                                                         ELSE IF bcast.active /\ bcast.to = ws
                                                         THEN bcast.cycle ELSE 0,
                                          ![ws].pos = IF reply = Nothing THEN @ ELSE 0]
            /\ subscriptions' =
                   IF reply = Nothing \/ action = "ping" THEN subscriptions
                   ELSE IF action = "subscribe" THEN subscribe(subscriptions, ws, topic)
                   ELSE unsubscribe(subscriptions, ws, topic)
            /\ UNCHANGED <<active_connections, bcast, xcast>>
    /\ UNCHANGED <<termVars, queryVars, inspVars, mloop, inbox, app, last>>

\* websocket_endpoint: receive_json returns a frame and the handler runs up
\* to its next await. A frame that is no JSON makes receive_json raise and a
\* frame that is no object makes data.get raise: the handler calls
\* disconnect and ends. Otherwise the branch of the action runs and the
\* handler awaits the send of the reply, or the next frame.
Receive(ws, frame) ==
    LET action == StrOrNone(frame.action)
        topic == StrOrNone(frame.topic)
        reply == Answer(action, topic)
        r == disconnect(active_connections, subscriptions, ws, UserOf(ws))
    IN
    /\ conn[ws] = "open"
    /\ handler[ws].msgs < MaxFrames
    /\ IF frame.kind # "object"
       THEN /\ conn' = [conn EXCEPT ![ws] = "gone"]
            /\ handler' = [handler EXCEPT ![ws].frame = frame, ![ws].msgs = @ + 1,
                                          ![ws].exit = "error"]
            /\ active_connections' = r.active_connections
            /\ subscriptions' = r.subscriptions
            /\ AfterDisconnect(ws)
       ELSE /\ conn' = [conn EXCEPT ![ws] = IF reply = Nothing THEN "open" ELSE "replying"]
            /\ handler' = [handler EXCEPT ![ws].frame = frame, ![ws].msgs = @ + 1,
                                          ![ws].reply = reply,
                                          ![ws].at = IF reply = Nothing THEN @ ELSE Len(inbox[ws]),
                                          ![ws].behind = IF reply = Nothing THEN @
                                                         ELSE IF bcast.active /\ bcast.to = ws
                                                         THEN bcast.cycle ELSE 0,
                                          ![ws].pos = IF reply = Nothing THEN @ ELSE 0]
            /\ subscriptions' =
                   IF reply = Nothing \/ action = "ping" THEN subscriptions
                   ELSE IF action = "subscribe" THEN subscribe(subscriptions, ws, topic)
                   ELSE unsubscribe(subscriptions, ws, topic)
            /\ UNCHANGED <<active_connections, bcast, xcast>>
    /\ UNCHANGED <<termVars, queryVars, inspVars, mloop, inbox, app, last>>

\* send_personal_message: the send of the reply is over, an exception of it
\* is passed over, and the handler awaits the next frame
ReplyDone(ws, ok) ==
    /\ conn[ws] = "replying"
    /\ conn' = [conn EXCEPT ![ws] = "open"]
    /\ handler' = [handler EXCEPT ![ws].reply = Nothing,
                                  ![ws].pos = IF ok THEN Len(inbox[ws]) + 1 ELSE 0]
    /\ inbox' = IF ok THEN [inbox EXCEPT ![ws] = Append(@, handler[ws].reply[1])] ELSE inbox
    /\ UNCHANGED <<termVars, queryVars, inspVars, active_connections, subscriptions, mloop,
                   bcast, app, xcast, last>>

\* a registry method called on any websocket, registered or not, by any
\* code of the application; last keeps what the call found and did
CallDisconnect(ws) ==
    LET r == disconnect(active_connections, subscriptions, ws, UserOf(ws)) IN
    /\ active_connections' = r.active_connections
    /\ subscriptions' = r.subscriptions
    /\ AfterDisconnect(ws)
    /\ last' = [op |-> "disconnect", ws |-> ws, user |-> UserOf(ws), topic |-> "",
                registered |-> Registered(ws),
                changed |-> (r.active_connections # active_connections
                             \/ r.subscriptions # subscriptions),
                raised |-> r.raised]
    /\ UNCHANGED <<termVars, queryVars, inspVars, conn, mloop, inbox, handler, app>>

CallSubscribe(ws, topic) ==
    LET subs == subscribe(subscriptions, ws, topic) IN
    /\ subscriptions' = subs
    /\ last' = [op |-> "subscribe", ws |-> ws, user |-> "", topic |-> topic,
                registered |-> Registered(ws),
                changed |-> (subs # subscriptions),
                raised |-> FALSE]
    /\ UNCHANGED <<termVars, queryVars, inspVars, conn, active_connections, mloop, bcast,
                   inbox, handler, app, xcast>>

CallUnsubscribe(ws, topic) ==
    LET subs == unsubscribe(subscriptions, ws, topic) IN
    /\ subscriptions' = subs
    /\ last' = [op |-> "unsubscribe", ws |-> ws, user |-> "", topic |-> topic,
                registered |-> Registered(ws),
                changed |-> (subs # subscriptions),
                raised |-> FALSE]
    /\ UNCHANGED <<termVars, queryVars, inspVars, conn, active_connections, mloop, bcast,
                   inbox, handler, app, xcast>>

\* disconnect called with any owner, as a caller of the class may do
CallDisconnectAs(ws, user_id) ==
    LET r == disconnect(active_connections, subscriptions, ws, user_id) IN
    /\ active_connections' = r.active_connections
    /\ subscriptions' = r.subscriptions
    /\ AfterDisconnectAs(ws, user_id)
    /\ last' = [op |-> "disconnect", ws |-> ws, user |-> user_id, topic |-> "",
                registered |-> Registered(ws),
                changed |-> (r.active_connections # active_connections
                             \/ r.subscriptions # subscriptions),
                raised |-> r.raised]
    /\ UNCHANGED <<termVars, queryVars, inspVars, conn, mloop, inbox, handler, app>>

\* variant: the loop samples whether or not anyone is subscribed
has_subscribers_Always(subs) == TRUE

\* _metrics_loop: any(METRICS_HOST in topics for topics in subscriptions.values())
has_subscribers(subs) == \E i \in 1 .. Len(subs) : METRICS_HOST \in subs[i].topics

\* _metrics_loop: the sleep of LOOP_PERIOD seconds is over; with a subscriber,
\* get_system_metrics is handed to the worker of the loop's pool and the loop
\* awaits it, without one the loop sleeps again
LoopWake ==
    LET c == mloop.cycle + 1
        woke == mloop.woke \cup
                    { [cycle |-> c, subscribers |-> Subscribers(subscriptions, METRICS_HOST)] }
    IN
    /\ mloop.pc = "sleeping"
    /\ app.cancel # "requested"
    /\ mloop.cycle < MaxCycles
    /\ now' = now + LOOP_PERIOD
    /\ IF has_subscribers(subscriptions)
       THEN /\ threads["w1"].op = "idle"
            /\ ncalls < MaxCalls
            /\ ncalls' = ncalls + 1
            /\ threads' = [threads EXCEPT !["w1"] =
                               [IdleFrame EXCEPT !.op = "metrics", !.pc = "M_lookup",
                                                 !.id = ncalls + 1]]
            /\ mloop' = [mloop EXCEPT !.pc = "sampling", !.cycle = c, !.callId = ncalls + 1,
                                      !.woke = woke, !.sampled = mloop.sampled \cup {c}]
       ELSE /\ mloop' = [mloop EXCEPT !.cycle = c, !.woke = woke]
            /\ UNCHANGED <<threads, ncalls>>
    /\ UNCHANGED <<termVars, queryVars, appVars, ostable, cores, pcache, mcache, hist,
                   conn, active_connections, subscriptions, bcast, inbox>>

\* _metrics_loop: the message built from the metrics; cycle tells the pushes
\* of different iterations apart
Push(cycle, metrics) ==
    [topic |-> METRICS_HOST, cycle |-> cycle,
     data |-> [cpu_percent |-> metrics.cpu_percent,
               memory_percent |-> metrics.memory_percent,
               top_processes |->
                   [i \in 1 .. Len(metrics.top_processes) |->
                        [pid |-> metrics.top_processes[i].pid,
                         name |-> metrics.top_processes[i].name,
                         cpu_percent |-> metrics.top_processes[i].cpu_percent,
                         memory_percent |-> metrics.top_processes[i].memory_percent]]]]

\* the metrics the loop's sampling call returned
Sampled == (CHOOSE h \in hist : h.id = mloop.callId).ret[1]

\* variant: an exception leaves the while loop
EndBroadcast_ExceptionEndsLoop(failed, raised) ==
    /\ bcast' = NoBroadcast
    /\ mloop' = [mloop EXCEPT !.pc = IF raised THEN "finished" ELSE "sleeping",
                              !.done = mloop.done \cup
                                  { [cycle |-> mloop.cycle, targets |-> bcast.targets,
                                     failed |-> failed, raised |-> raised] }]

\* the iteration is over: the sampling call or broadcast_to_topic has raised
\* into the except clause of the loop, or the broadcast has returned, and
\* the loop sleeps again
EndBroadcast(failed, raised) ==
    /\ bcast' = NoBroadcast
    /\ mloop' = [mloop EXCEPT !.pc = "sleeping",
                              !.done = mloop.done \cup
                                  { [cycle |-> mloop.cycle, targets |-> bcast.targets,
                                     failed |-> failed, raised |-> raised] }]

\* variant: a failed sampling call is reported to the subscribers
LoopResume_ReportsFailure ==
    LET first == NextSubscriber(subscriptions, 1, METRICS_HOST) IN
    /\ mloop.pc = "sampling"
    /\ app.cancel # "requested"
    /\ \E h \in hist : h.id = mloop.callId
    /\ IF (CHOOSE h \in hist : h.id = mloop.callId).ret = Nothing
       THEN /\ EndBroadcast({}, TRUE)
            /\ inbox' = [ws \in Handles |->
                             IF ws \in Subscribers(subscriptions, METRICS_HOST)
                             THEN Append(inbox[ws], [type |-> "error", topic |-> Absent, cycle |-> 0])
                             ELSE inbox[ws]]
       ELSE IF first = 0
       THEN /\ inbox' = inbox
            /\ bcast' = NoBroadcast
            /\ mloop' = [mloop EXCEPT !.pc = "sleeping",
                                      !.done = mloop.done \cup
                                          { [cycle |-> mloop.cycle, targets |-> {},
                                             failed |-> {}, raised |-> FALSE] }]
       ELSE /\ bcast' = [active |-> TRUE, pos |-> first, to |-> subscriptions[first].ws,
                         size |-> Len(subscriptions), cycle |-> mloop.cycle,
                         targets |-> Subscribers(subscriptions, METRICS_HOST),
                         failed |-> {}, sent |-> 1]
            /\ mloop' = [mloop EXCEPT !.pc = "broadcasting"]
            /\ inbox' = inbox
    /\ UNCHANGED <<termVars, queryVars, inspVars, appVars, conn, active_connections, subscriptions>>

\* _metrics_loop: the sampling call is over. If it raised, the except clause
\* of the loop passes and the loop sleeps again; otherwise broadcast_to_topic
\* starts iterating subscriptions.items() and awaits its first send
LoopResume ==
    LET first == NextSubscriber(subscriptions, 1, METRICS_HOST) IN
    /\ mloop.pc = "sampling"
    /\ app.cancel # "requested"
    /\ \E h \in hist : h.id = mloop.callId
    /\ IF (CHOOSE h \in hist : h.id = mloop.callId).ret = Nothing
       THEN EndBroadcast({}, TRUE)
       ELSE IF first = 0
       THEN /\ bcast' = NoBroadcast
            /\ mloop' = [mloop EXCEPT !.pc = "sleeping",
                                      !.done = mloop.done \cup
                                          { [cycle |-> mloop.cycle, targets |-> {},
                                             failed |-> {}, raised |-> FALSE] }]
       ELSE /\ bcast' = [active |-> TRUE, pos |-> first, to |-> subscriptions[first].ws,
                         size |-> Len(subscriptions), cycle |-> mloop.cycle,
                         targets |-> Subscribers(subscriptions, METRICS_HOST),
                         failed |-> {}, sent |-> 1]
            /\ mloop' = [mloop EXCEPT !.pc = "broadcasting"]
    /\ UNCHANGED <<termVars, queryVars, inspVars, appVars, conn, active_connections, subscriptions, inbox>>

\* variant: a failed send ends the broadcast
SendDone_AbortOnFailure(ws, ok) ==
    LET failed == IF ok THEN bcast.failed ELSE bcast.failed \cup {ws}
        nxt == NextSubscriber(subscriptions, bcast.pos + 1, METRICS_HOST)
    IN
    /\ bcast.active
    /\ app.cancel # "requested"
    /\ ws = bcast.to
    /\ inbox' = IF ok THEN [inbox EXCEPT ![ws] = Append(@, Push(bcast.cycle, Sampled))]
                ELSE inbox
    /\ IF ~ok \/ Len(subscriptions) # bcast.size
       THEN EndBroadcast(failed, TRUE)
       ELSE IF nxt = 0
            THEN EndBroadcast(failed, FALSE)
            ELSE /\ bcast' = [bcast EXCEPT !.pos = nxt, !.to = subscriptions[nxt].ws,
                                           !.failed = failed, !.sent = @ + 1]
                 /\ mloop' = mloop
    /\ UNCHANGED <<termVars, queryVars, inspVars, appVars, conn, active_connections, subscriptions>>

\* broadcast_to_topic: the send to ws is over (an exception of it is passed
\* over) and the iteration goes on to the next subscriber: the dict iterator
\* raises RuntimeError if the dict has changed size, outside the try
SendDone(ws, ok) ==
    LET failed == IF ok THEN bcast.failed ELSE bcast.failed \cup {ws}
        nxt == NextSubscriber(subscriptions, bcast.pos + 1, METRICS_HOST)
    IN
    /\ bcast.active
    /\ app.cancel # "requested"
    /\ ws = bcast.to
    /\ inbox' = IF ok THEN [inbox EXCEPT ![ws] = Append(@, Push(bcast.cycle, Sampled))]
                ELSE inbox
    /\ IF Len(subscriptions) # bcast.size
       THEN EndBroadcast(failed, TRUE)
       ELSE IF nxt = 0
            THEN EndBroadcast(failed, FALSE)
            ELSE /\ bcast' = [bcast EXCEPT !.pos = nxt, !.to = subscriptions[nxt].ws,
                                           !.failed = failed, !.sent = @ + 1]
                 /\ mloop' = mloop
    /\ UNCHANGED <<termVars, queryVars, inspVars, appVars, conn, active_connections, subscriptions>>

\* get_system_metrics on the worker of the loop's pool. With no other caller
\* both slots are older than their TTL after the sleep of the loop.
SamplingStep ==
    \/ \E cpu \in CpuReadings, mem \in MemReadings : MetricsLookup("w1", cpu, mem)
    \/ ListLookup("w1")
    \/ ListEnumerate("w1")
    \/ ListWriteData("w1")
    \/ ListWriteTs("w1")
    \/ MetricsStore("w1")
    \/ MetricsWriteTs("w1")

\* the message of a broadcast_to_user or broadcast_all call
Notice == [type |-> "notice", topic |-> Absent, cycle |-> 0]

\* broadcast_to_user or broadcast_all is over; raised tells whether the
\* iterator of the dict raised RuntimeError
EndXcast(failed, raised) ==
    xcast' = [NoXcast EXCEPT !.calls = xcast.calls, !.raised = raised, !.failed = failed]

\* broadcast_to_user, called by some code of the application: with no key
\* for the user it returns at once, otherwise it awaits the send to the first
\* connection of the user's list
StartUserBroadcast(u) ==
    LET k == UserIndex(active_connections, u) IN
    /\ ~xcast.active
    /\ xcast.calls < MaxBroadcasts
    /\ xcast' = IF k = 0
                THEN [NoXcast EXCEPT !.calls = xcast.calls + 1]
                ELSE [NoXcast EXCEPT !.active = TRUE, !.kind = "user", !.user = u,
                                     !.idx = 1, !.to = active_connections[k].conns[1],
                                     !.calls = xcast.calls + 1, !.sent = 1]
    /\ UNCHANGED <<termVars, queryVars, inspVars, wsVars, handler, app, last>>

\* broadcast_all, called by some code of the application: it awaits the send
\* to the first connection of the first list of active_connections.values()
StartAllBroadcast ==
    /\ ~xcast.active
    /\ xcast.calls < MaxBroadcasts
    /\ xcast' = IF active_connections = << >>
                THEN [NoXcast EXCEPT !.calls = xcast.calls + 1]
                ELSE [NoXcast EXCEPT !.active = TRUE, !.kind = "all", !.pos = 1,
                                     !.idx = 1, !.to = active_connections[1].conns[1],
                                     !.size = Len(active_connections),
                                     !.calls = xcast.calls + 1, !.sent = 1]
    /\ UNCHANGED <<termVars, queryVars, inspVars, wsVars, handler, app, last>>

\* variant: a failed send is raised to the caller of the broadcast
XSendDone_RaisesOnFailure(ok) ==
    LET failed == IF ok THEN xcast.failed ELSE xcast.failed \cup {xcast.to}
        k == IF xcast.kind = "user" THEN UserIndex(active_connections, xcast.user)
             ELSE xcast.pos
        conns == IF xcast.detached \/ k = 0 THEN << >> ELSE active_connections[k].conns
    IN
    /\ xcast.active
    /\ inbox' = IF ok THEN [inbox EXCEPT ![xcast.to] = Append(@, Notice)] ELSE inbox
    /\ IF ~ok
       THEN EndXcast(failed, TRUE)
       ELSE IF xcast.idx + 1 <= Len(conns)
       THEN xcast' = [xcast EXCEPT !.idx = @ + 1, !.to = conns[xcast.idx + 1],
                                   !.failed = failed, !.sent = @ + 1]
       ELSE IF xcast.kind = "user"
            THEN EndXcast(failed, FALSE)
            ELSE IF Len(active_connections) # xcast.size
                 THEN EndXcast(failed, TRUE)
                 ELSE IF xcast.pos + 1 <= Len(active_connections)
                      THEN xcast' = [xcast EXCEPT !.pos = @ + 1, !.idx = 1,
                                                  !.detached = FALSE,
                                                  !.to = active_connections[xcast.pos + 1].conns[1],
                                                  !.failed = failed, !.sent = @ + 1]
                      ELSE EndXcast(failed, FALSE)
    /\ UNCHANGED <<termVars, queryVars, inspVars, conn, active_connections, subscriptions,
                   mloop, bcast, handler, app, last>>

\* broadcast_to_user and broadcast_all: the send in progress is over, an
\* exception of it is passed over, and the iteration goes on. The list is
\* read by index at every step; in broadcast_all the iterator of the dict
\* then moves to the next list and raises RuntimeError, outside the try, if
\* the dict has changed size.
XSendDone(ok) ==
    LET failed == IF ok THEN xcast.failed ELSE xcast.failed \cup {xcast.to}
        k == IF xcast.kind = "user" THEN UserIndex(active_connections, xcast.user)
             ELSE xcast.pos
        conns == IF xcast.detached \/ k = 0 THEN << >> ELSE active_connections[k].conns
    IN
    /\ xcast.active
    /\ inbox' = IF ok THEN [inbox EXCEPT ![xcast.to] = Append(@, Notice)] ELSE inbox
    /\ IF xcast.idx + 1 <= Len(conns)
       THEN xcast' = [xcast EXCEPT !.idx = @ + 1, !.to = conns[xcast.idx + 1],
                                   !.failed = failed, !.sent = @ + 1]
       ELSE IF xcast.kind = "user"
            THEN EndXcast(failed, FALSE)
            ELSE IF Len(active_connections) # xcast.size
                 THEN EndXcast(failed, TRUE)
                 ELSE IF xcast.pos + 1 <= Len(active_connections)
                      THEN xcast' = [xcast EXCEPT !.pos = @ + 1, !.idx = 1,
                                                  !.detached = FALSE,
                                                  !.to = active_connections[xcast.pos + 1].conns[1],
                                                  !.failed = failed, !.sent = @ + 1]
                      ELSE EndXcast(failed, FALSE)
    /\ UNCHANGED <<termVars, queryVars, inspVars, conn, active_connections, subscriptions,
                   mloop, bcast, handler, app, last>>

\* ---------------------------------------------------------------------
\* The loop and its observers: websockets connect, subscribe, unsubscribe
\* and disconnect while the loop cycles.
\* ---------------------------------------------------------------------

LoopHandles == {"c1", "c2"}
LoopTopics == {METRICS_HOST, VPROC_EVENTS}

InitLoop ==
    /\ InitTerm
    /\ InitInspector
    /\ InitWs
    /\ selfPid = 1
    /\ parentPid = 0
    /\ ostable = TableA
    /\ cores = Some(2)

NextLoop ==
    \/ \E ws \in LoopHandles : Open(ws, UserCred(ClientOf(ws)))
    \/ \E ws \in LoopHandles : Connect(ws)
    \/ \E ws \in LoopHandles : Disconnect(ws)
    \/ \E ws \in LoopHandles, topic \in LoopTopics : Subscribe(ws, topic)
    \/ \E ws \in LoopHandles, topic \in LoopTopics : Unsubscribe(ws, topic)
    \/ (mloop.cycle < MaxObservedCycles /\ LoopWake)
    \/ SamplingStep
    \/ LoopResume
    \/ \E ws \in Handles, ok \in BOOLEAN : SendDone(ws, ok)

SpecLoop == InitLoop /\ [][NextLoop]_vars

\* ---------------------------------------------------------------------
\* The registry alone: websockets connect and disconnect, and the registry
\* methods are called on every websocket in every state.
\* ---------------------------------------------------------------------

RegistryTopics == {METRICS_HOST, VPROC_EVENTS}

NextRegistry ==
    \/ \E ws \in Handles : Open(ws, UserCred(ClientOf(ws)))
    \/ \E ws \in Handles : Connect(ws)
    \/ \E ws \in Handles : Disconnect(ws)
    \/ \E ws \in Handles : CallDisconnect(ws)
    \/ \E ws \in Handles, topic \in RegistryTopics : CallSubscribe(ws, topic)
    \/ \E ws \in Handles, topic \in RegistryTopics : CallUnsubscribe(ws, topic)

SpecRegistry == InitLoop /\ [][NextRegistry]_vars

\* the owners a caller may name
Owners == {"u1", "u2"}

\* the registry called as above, and by a caller that names any owner in
\* disconnect
NextCalls ==
    \/ NextRegistry
    \/ \E ws \in Handles, user_id \in Owners : CallDisconnectAs(ws, user_id)

SpecCalls == InitLoop /\ [][NextCalls]_vars

\* ---------------------------------------------------------------------
\* The streaming endpoint: two channels are opened with any credential; the
\* client of the first sends any frames, the client of the second subscribes
\* to host-metrics, and the replies arrive or fail.
\* ---------------------------------------------------------------------

FramesOf(ws) ==
    IF ws = "c1" THEN Frames
    ELSE { [kind |-> "object", action |-> "subscribe", topic |-> METRICS_HOST] }

NextEndpoint ==
    \/ \E ws \in LoopHandles, cred \in Creds : Open(ws, cred)
    \/ \E ws \in LoopHandles : Connect(ws)
    \/ \E ws \in LoopHandles : \E frame \in FramesOf(ws) : Receive(ws, frame)
    \/ \E ws \in LoopHandles, ok \in BOOLEAN : ReplyDone(ws, ok)
    \/ \E ws \in LoopHandles : Disconnect(ws)

SpecEndpoint == InitLoop /\ [][NextEndpoint]_vars

\* ---------------------------------------------------------------------
\* The observers and the senders: two channels of one user open, subscribe
\* to and unsubscribe from host-metrics and close, while the loop cycles;
\* any send may fail.
\* ---------------------------------------------------------------------

ObserverFrames ==
    { [kind |-> "object", action |-> a, topic |-> METRICS_HOST] : a \in {"subscribe", "unsubscribe"} }

NextObservers ==
    \/ \E ws \in LoopHandles : Open(ws, UserCred(ClientOf(ws)))
    \/ \E ws \in LoopHandles : Connect(ws)
    \/ \E ws \in LoopHandles, frame \in ObserverFrames : Receive(ws, frame)
    \/ \E ws \in LoopHandles, ok \in BOOLEAN : ReplyDone(ws, ok)
    \/ \E ws \in LoopHandles : Disconnect(ws)
    \/ (mloop.cycle < MaxObservedCycles /\ LoopWake)
    \/ SamplingStep
    \/ LoopResume
    \/ \E ws \in LoopHandles, ok \in BOOLEAN : SendDone(ws, ok)

SpecObservers == InitLoop /\ [][NextObservers]_vars

\* ---------------------------------------------------------------------
\* The broadcast alone: three connected observers with every combination of
\* subscriptions, and sends that fail or succeed.
\* ---------------------------------------------------------------------

TopicSets == { {}, {METRICS_HOST}, {VPROC_EVENTS}, {METRICS_HOST, VPROC_EVENTS} }

InitBroadcast ==
    /\ InitTerm
    /\ InitInspector
    /\ selfPid = 1
    /\ parentPid = 0
    /\ ostable = TableA
    /\ cores = Some(2)
    /\ handler = [ws \in Handles |-> [NewHandler EXCEPT !.cred = UserCred(ClientOf(ws))]]
    /\ app = Serving(TRUE)
    /\ xcast = NoXcast
    /\ last = NoCall
    /\ conn = [ws \in Handles |-> "open"]
    /\ active_connections = << [user |-> "u1", conns |-> <<"c1", "c2">>],
                               [user |-> "u2", conns |-> <<"c3">>] >>
    /\ \E t1, t2, t3 \in TopicSets :
           subscriptions = << [ws |-> "c1", topics |-> t1],
                              [ws |-> "c2", topics |-> t2],
                              [ws |-> "c3", topics |-> t3] >>
    /\ mloop = SleepingLoop
    /\ bcast = NoBroadcast
    /\ inbox = [ws \in Handles |-> << >>]

NextBroadcast ==
    \/ LoopWake
    \/ SamplingStep
    \/ LoopResume
    \/ \E ws \in Handles, ok \in BOOLEAN : SendDone(ws, ok)

SpecBroadcast == InitBroadcast /\ [][NextBroadcast]_vars

\* ---------------------------------------------------------------------
\* The senders: three observers of two users are connected and subscribed to
\* host-metrics. The client of the first sends pings and frames that are no
\* JSON, the clients of the first two close; the loop cycles and the
\* application broadcasts to a user or to everyone; any send may fail.
\* ---------------------------------------------------------------------

DeliveryFrames ==
    { [kind |-> "object", action |-> "ping", topic |-> Absent],
      [kind |-> "garbage", action |-> Absent, topic |-> Absent] }

InitDelivery ==
    /\ InitBroadcast
    /\ Subscribers(subscriptions, METRICS_HOST) = Handles
    /\ \A i \in 1 .. Len(subscriptions) : subscriptions[i].topics = {METRICS_HOST}

NextDelivery ==
    \/ \E frame \in DeliveryFrames : Receive("c1", frame)
    \/ \E ok \in BOOLEAN : ReplyDone("c1", ok)
    \/ \E ws \in LoopHandles : Disconnect(ws)
    \/ (mloop.cycle < MaxObservedCycles /\ LoopWake)
    \/ SamplingStep
    \/ LoopResume
    \/ \E ws \in Handles, ok \in BOOLEAN : SendDone(ws, ok)
    \/ StartUserBroadcast("u1")
    \/ StartAllBroadcast
    \/ \E ok \in BOOLEAN : XSendDone(ok)

SpecDelivery == InitDelivery /\ [][NextDelivery]_vars

\* ---------------------------------------------------------------------
\* The loop under faults and the shutdown: three subscribed observers, two
\* of which may close; the sampling call may raise, sends may fail, and the
\* application may shut down at any moment.
\* ---------------------------------------------------------------------

\* lifespan after the yield: stop_metrics_broadcast cancels the loop task and
\* awaits it
Shutdown ==
    /\ app.pc = "serving"
    /\ app' = [app EXCEPT !.pc = "stopping", !.cancel = "requested"]
    /\ UNCHANGED <<termVars, queryVars, inspVars, wsVars, handler, xcast, last>>

\* variant: the CancelledError raised in a send is passed over like any other
\* exception of the send, and the loop goes on
LoopCancelled_PassedOverInSend(delivered) ==
    /\ app.cancel = "requested"
    /\ mloop.pc # "finished"
    /\ app' = [app EXCEPT !.cancel = "delivered", !.stoppedAt = mloop.pc]
    /\ IF mloop.pc = "broadcasting"
       THEN UNCHANGED <<mloop, bcast>>
       ELSE /\ mloop' = [mloop EXCEPT !.pc = "finished"]
            /\ bcast' = NoBroadcast
    /\ inbox' = inbox
    /\ UNCHANGED <<termVars, queryVars, inspVars, conn, active_connections, subscriptions,
                   handler, xcast, last>>

\* the loop task runs again after cancel(): CancelledError is raised at the
\* await it is suspended in (the sleep, run_in_executor, or the send_json of
\* broadcast_to_topic, whose except Exception does not catch it) and the
\* except clause of the loop breaks. The interrupted send has reached the
\* client or not; the sampling call goes on in its thread.
LoopCancelled(delivered) ==
    /\ app.cancel = "requested"
    /\ mloop.pc # "finished"
    /\ app' = [app EXCEPT !.cancel = "delivered", !.stoppedAt = mloop.pc]
    /\ mloop' = [mloop EXCEPT !.pc = "finished"]
    /\ bcast' = NoBroadcast
    /\ inbox' = IF bcast.active /\ delivered
                THEN [inbox EXCEPT ![bcast.to] = Append(@, Push(bcast.cycle, Sampled))]
                ELSE inbox
    /\ UNCHANGED <<termVars, queryVars, inspVars, conn, active_connections, subscriptions,
                   handler, xcast, last>>

\* variant: stop_metrics_broadcast returns without awaiting the task
StopReturns_WithoutAwait ==
    /\ app.pc = "stopping"
    /\ app' = [app EXCEPT !.pc = "stopped"]
    /\ UNCHANGED <<termVars, queryVars, inspVars, wsVars, handler, xcast, last>>

\* stop_metrics_broadcast: the awaited task is done and the call returns
StopReturns ==
    /\ app.pc = "stopping"
    /\ mloop.pc = "finished"
    /\ app' = [app EXCEPT !.pc = "stopped"]
    /\ UNCHANGED <<termVars, queryVars, inspVars, wsVars, handler, xcast, last>>

\* lifespan: the database connection is closed if the startup made one
CloseDatabase ==
    /\ app.pc = "stopped"
    /\ app' = [app EXCEPT !.pc = "down", !.db = FALSE]
    /\ UNCHANGED <<termVars, queryVars, inspVars, wsVars, handler, xcast, last>>

\* lifespan has started the loop; the startup has reached the database or not
InitLifecycle ==
    /\ InitTerm
    /\ InitInspector
    /\ selfPid = 1
    /\ parentPid = 0
    /\ ostable = TableA
    /\ cores = Some(2)
    /\ handler = [ws \in Handles |-> [NewHandler EXCEPT !.cred = UserCred(ClientOf(ws))]]
    /\ app \in {Serving(TRUE), Serving(FALSE)}
    /\ xcast = NoXcast
    /\ last = NoCall
    /\ conn = [ws \in Handles |-> "open"]
    /\ active_connections = << [user |-> "u1", conns |-> <<"c1", "c2">>],
                               [user |-> "u2", conns |-> <<"c3">>] >>
    /\ subscriptions = << [ws |-> "c1", topics |-> {METRICS_HOST}],
                          [ws |-> "c2", topics |-> {METRICS_HOST}],
                          [ws |-> "c3", topics |-> {METRICS_HOST}] >>
    /\ mloop = SleepingLoop
    /\ bcast = NoBroadcast
    /\ inbox = [ws \in Handles |-> << >>]

NextFaults ==
    \/ \E ws \in LoopHandles : Disconnect(ws)
    \/ LoopWake
    \/ SamplingStep
    \/ MetricsRaise("w1")
    \/ LoopResume
    \/ \E ws \in Handles, ok \in BOOLEAN : SendDone(ws, ok)

\* the timer of the sleep fires, the worker thread runs, and a send ends
FairLoop ==
    /\ WF_vars(LoopWake)
    /\ WF_vars(SamplingStep \/ MetricsRaise("w1"))
    /\ WF_vars(LoopResume)
    /\ WF_vars(\E ws \in Handles, ok \in BOOLEAN : SendDone(ws, ok))

SpecFaults == InitLifecycle /\ [][NextFaults]_vars /\ FairLoop

NextLifecycle ==
    \/ NextFaults
    \/ Shutdown
    \/ \E delivered \in BOOLEAN : LoopCancelled(delivered)
    \/ StopReturns
    \/ CloseDatabase

SpecLifecycle == InitLifecycle /\ [][NextLifecycle]_vars

\* ---------------------------------------------------------------------
\* The start and stop methods of the manager, called one after the other
\* in any order and number.
\* ---------------------------------------------------------------------

\* the loop tasks that have been created and have not finished
AliveTasks == { id \in DOMAIN app.loops.tasks : app.loops.tasks[id] # "done" }

\* start_metrics_broadcast: a task is created and _metrics_task names it
start_metrics_broadcast ==
    LET l == app.loops
        id == Cardinality(DOMAIN l.tasks) + 1
    IN
    /\ l.stop = "idle"
    /\ id <= MaxStarts
    /\ app' = [app EXCEPT !.loops =
                   [l EXCEPT !.task = id,
                             !.tasks = [i \in 1 .. id |-> IF i = id THEN "sleeping" ELSE l.tasks[i]],
                             !.returned = "start"]]
    /\ UNCHANGED <<termVars, queryVars, inspVars, wsVars, handler, xcast, last>>

\* stop_metrics_broadcast, up to its await: with no task it returns, with
\* one it calls cancel(), which asks a task that is not done to stop
stop_metrics_broadcast ==
    LET l == app.loops IN
    /\ l.stop = "idle"
    /\ app' = [app EXCEPT !.loops =
                   IF l.task = 0 THEN [l EXCEPT !.returned = "stop"]
                   ELSE [l EXCEPT !.stop = "awaiting",
                                  !.cancel = IF l.tasks[l.task] = "done" THEN 0 ELSE l.task]]
    /\ UNCHANGED <<termVars, queryVars, inspVars, wsVars, handler, xcast, last>>

\* stop_metrics_broadcast: the awaited task is done
stop_metrics_broadcast_returns ==
    LET l == app.loops IN
    /\ l.stop = "awaiting"
    /\ l.tasks[l.task] = "done"
    /\ app' = [app EXCEPT !.loops = [l EXCEPT !.stop = "idle", !.returned = "stop"]]
    /\ UNCHANGED <<termVars, queryVars, inspVars, wsVars, handler, xcast, last>>

\* _metrics_loop of task id: the sleep is over and the body of the
\* iteration runs
TaskWake(id) ==
    LET l == app.loops IN
    /\ id \in DOMAIN l.tasks
    /\ l.tasks[id] = "sleeping"
    /\ l.cancel # id
    /\ app' = [app EXCEPT !.loops = [l EXCEPT !.tasks[id] = "working"]]
    /\ UNCHANGED <<termVars, queryVars, inspVars, wsVars, handler, xcast, last>>

\* _metrics_loop of task id: the iteration is over, with or without an
\* exception, and the task sleeps again
TaskSleep(id) ==
    LET l == app.loops IN
    /\ id \in DOMAIN l.tasks
    /\ l.tasks[id] = "working"
    /\ l.cancel # id
    /\ app' = [app EXCEPT !.loops = [l EXCEPT !.tasks[id] = "sleeping"]]
    /\ UNCHANGED <<termVars, queryVars, inspVars, wsVars, handler, xcast, last>>

\* _metrics_loop of task id: CancelledError is raised at its await and the
\* loop breaks
TaskCancelled(id) ==
    LET l == app.loops IN
    /\ l.cancel = id
    /\ app' = [app EXCEPT !.loops = [l EXCEPT !.tasks[id] = "done", !.cancel = 0]]
    /\ UNCHANGED <<termVars, queryVars, inspVars, wsVars, handler, xcast, last>>

NextTasks ==
    \/ start_metrics_broadcast
    \/ stop_metrics_broadcast
    \/ stop_metrics_broadcast_returns
    \/ \E id \in 1 .. MaxStarts : TaskWake(id)
    \/ \E id \in 1 .. MaxStarts : TaskSleep(id)
    \/ \E id \in 1 .. MaxStarts : TaskCancelled(id)

\* the manager after construction, before the startup hook
InitTasks ==
    /\ InitLoop
    /\ app \in {Serving(TRUE), Serving(FALSE)}

SpecTasks == InitTasks /\ [][NextTasks]_vars

\* ---------------------------------------------------------------------
\* The loop without end, with a client that comes and goes: c2 and c3 stay
\* subscribed, every sampling call returns and every send succeeds, while
\* c1 disconnects and connects again and again.
\* ---------------------------------------------------------------------

\* a client opens a new connection: the endpoint gets a new websocket
\* object, named like one that has left the registry
Fresh(ws) ==
    /\ conn[ws] = "gone"
    /\ ws \notin Listed(active_connections)
    /\ SubIndex(subscriptions, ws) = 0
    /\ conn' = [conn EXCEPT ![ws] = "new"]
    /\ handler' = [handler EXCEPT ![ws] = NewHandler]
    /\ UNCHANGED <<termVars, queryVars, inspVars, active_connections, subscriptions,
                   mloop, bcast, inbox, app, xcast, last>>

\* the observation starts anew while the loop sleeps: the records of the
\* iterations so far and of what the clients received are dropped and time
\* is counted from a new origin. Both cache slots are older than their TTL
\* at the next wake-up, as an empty slot is.
NewWindow ==
    /\ mloop.pc = "sleeping"
    /\ mloop.cycle = MaxCycles
    /\ threads["w1"].op = "idle"
    /\ mloop' = SleepingLoop
    /\ inbox' = [ws \in Handles |-> << >>]
    /\ now' = StartOfTime
    /\ pcache' = EmptySlot
    /\ mcache' = EmptySlot
    /\ ncalls' = 0
    /\ hist' = {}
    /\ UNCHANGED <<termVars, queryVars, appVars, ostable, cores, threads,
                   conn, active_connections, subscriptions, bcast>>

NextChurn ==
    \/ Disconnect("c1")
    \/ Fresh("c1")
    \/ Open("c1", UserCred(ClientOf("c1")))
    \/ Connect("c1")
    \/ LoopWake
    \/ SamplingStep
    \/ LoopResume
    \/ \E ws \in Handles : SendDone(ws, TRUE)
    \/ NewWindow

\* the timer of the sleep fires, the worker thread runs, and a send ends
FairChurn ==
    /\ WF_vars(LoopWake)
    /\ WF_vars(SamplingStep)
    /\ WF_vars(LoopResume)
    /\ WF_vars(\E ws \in Handles : SendDone(ws, TRUE))
    /\ WF_vars(NewWindow)

SpecChurn == InitDelivery /\ [][NextChurn]_vars /\ FairChurn

\* ---------------------------------------------------------------------
\* The two senders of one connection: three observers are connected and
\* subscribed to host-metrics, the client of the first sends pings, which
\* its handler answers, while the loop cycles; any send may fail. A
\* websocket carries its messages in the order of the send_json calls: of
\* two sends in flight on one websocket the one called first is over first.
\* ---------------------------------------------------------------------

Ping == [kind |-> "object", action |-> "ping", topic |-> Absent]

\* a reply and a push are in flight on ws
BothInFlight(ws) == conn[ws] = "replying" /\ bcast.active /\ bcast.to = ws

\* of the two, the send of the push was called first
PushAhead(ws) == BothInFlight(ws) /\ handler[ws].behind = bcast.cycle

\* of the two, the send of the reply was called first
ReplyAhead(ws) == BothInFlight(ws) /\ handler[ws].behind # bcast.cycle

\* send_personal_message on a websocket that keeps the order of its sends
InOrderReplyDone(ws, ok) == ~PushAhead(ws) /\ ReplyDone(ws, ok)

\* broadcast_to_topic on websockets that keep the order of their sends
InOrderSendDone(ws, ok) == ~ReplyAhead(ws) /\ SendDone(ws, ok)

NextOrder ==
    \/ Receive("c1", Ping)
    \/ \E ok \in BOOLEAN : InOrderReplyDone("c1", ok)
    \/ LoopWake
    \/ SamplingStep
    \/ LoopResume
    \/ \E ws \in Handles, ok \in BOOLEAN : InOrderSendDone(ws, ok)

SpecOrder == InitDelivery /\ [][NextOrder]_vars

\* the request passes the gates of the route (the table entry of the pid is
\* read only then)
Admitted(cred, pid) ==
    /\ AuthError(cred).status = 0
    /\ HasAdminRole(cred.roles)
    /\ validate_pid(pid).status = 0

Next ==
    \/ \E cred \in Creds, pid \in ReqPids :
           \E entry \in (IF Admitted(cred, pid) THEN TargetEntries ELSE {NoTarget}) :
               Request(cred, pid, entry)
    \/ Respond
    \/ CheckPolicy
    \/ \E fail \in BOOLEAN : Lookup(fail)
    \/ \E fail \in BOOLEAN : ResolveName(fail)
    \/ \E fail \in BOOLEAN : SendTerminate(fail)
    \/ GracefulExit
    \/ GracefulTimeout
    \/ \E fail \in BOOLEAN : SendKill(fail)
    \/ ForcedExit
    \/ ForcedTimeout
    \/ WaitFails
    \/ Tick
    \/ ProcExit

Spec == Init /\ [][Next]_vars

\* The two routes that take a pid, side by side.  The terminate call meets
\* one well-behaved target here; its other encounters are explored by Spec.
PlainTarget == [alive |-> TRUE, name |-> "bash", perm |-> TRUE]

\* one caller of each kind: anonymous, plain user, admin
GateCreds == { c \in Creds : c.username \in {"alice", "admin"} } \cup {NoCred}

NextValidate ==
    \/ \E cred \in GateCreds, pid \in ReqPids :
           \E entry \in (IF Admitted(cred, pid) THEN {PlainTarget} ELSE {NoTarget}) :
               Request(cred, pid, entry)
    \/ Respond
    \/ CheckPolicy
    \/ Lookup(FALSE)
    \/ ResolveName(FALSE)
    \/ SendTerminate(FALSE)
    \/ GracefulExit
    \/ GracefulTimeout
    \/ SendKill(FALSE)
    \/ ForcedExit
    \/ ForcedTimeout
    \/ WaitFails
    \/ Tick
    \/ ProcExit
    \/ \E cred \in GateCreds, pid \in ReqPids : DetailsRequest(cred, pid)
    \/ \E outcome \in {"found", "gone", "denied"} : DetailsRun(outcome)
    \/ DetailsRespond

SpecValidate == Init /\ [][NextValidate]_vars

\* ------------------------------------------------------------- properties
Denied == call.result = "TerminationDenied"
SentSig(sig) == \E i \in DOMAIN call.sent : call.sent[i].sig = sig
CriticalPhrase == <<"critical", "system", "process">>
SelfPhrase == <<"self", "process">>

\* C1: a terminate_process call on pid 0 or 1 makes no process lookup and
\* sends no signal, and ends by raising TerminationDenied with a reason that
\* contains "critical system process", whoever the actor and whatever the
\* process table holds for the pid.
C1_CriticalPidDenied ==
    (call.pc # "idle" /\ call.pid \in {0, 1}) =>
        /\ call.lookups = 0
        /\ call.sent = << >>
        /\ Ended => (Denied /\ Contains(call.reason, CriticalPhrase))

C1_Witness ==
    /\ Ended /\ call.pid = 1 /\ Denied
    /\ target.alive /\ target.perm /\ target.name = "bash"
    /\ selfPid # 1 /\ parentPid # 1

\* C2: a terminate_process call on the service's own pid or on its parent's
\* pid sends no signal and ends by raising TerminationDenied.
C2_SelfParentDenied ==
    (call.pc # "idle" /\ call.pid \in {selfPid, parentPid}) =>
        /\ call.sent = << >>
        /\ Ended => Denied

C2_Witness ==
    /\ Ended /\ Denied
    /\ call.pid = parentPid /\ call.pid \notin {0, 1}
    /\ target.alive /\ target.perm /\ target.name = "bash"

\* C3: once the target's name has been resolved to a name that equals a
\* critical name ignoring case, the call has ended in a denial and has sent
\* no signal.
C3_CriticalNameNeverSignalled ==
    (call.proc_name # NoName
       /\ \E name \in CRITICAL_PROCESS_NAMES : lower(name) = lower(call.proc_name)) =>
        /\ call.sent = << >>
        /\ Ended /\ Denied

C3_Witness ==
    /\ Ended /\ Denied /\ call.proc_name = "INIT"
    /\ target.alive /\ target.perm

\* C4: no terminate_process call is ever running for a caller without the
\* admin role, and an authenticated caller without it is answered 403
\* "Admin access required".
C4_NonAdminRefused ==
    /\ call.pc # "idle" => "admin" \in call.cred.roles
    /\ (resp # NoResp /\ AuthError(resp.cred).status = 0 /\ "admin" \notin resp.cred.roles) =>
           /\ resp.status = 403
           /\ resp.detail = <<"Admin", "access", "required">>

C4_Witness ==
    /\ resp.status = 403 /\ resp.cred.username = "alice" /\ resp.pid = Wide(2)
    /\ call.pc = "idle"

\* C5: a call that has sent the graceful signal and whose target has exited
\* by the time the call ends returns True (calls cut short by an OS failure
\* of another class aside).
C5_ExitMeansSuccess ==
    (Ended /\ SentSig("SIGTERM") /\ ~call.aliveAtEnd /\ call.raised # "OSError") =>
        call.result = "True"

C7_TrueOrDenied ==
    Ended =>
        /\ call.result \in {"True", "TerminationDenied"}
        /\ call.result = "True" => call.sent # << >>
        /\ Denied => call.reason # << >>
        /\ call.raised = "OSError" => (Denied /\ Contains(call.reason, OSError.text))

C7_Witness ==
    /\ Ended /\ call.raised = "OSError" /\ call.at = "wait1"
    /\ Denied /\ SentSig("SIGTERM")

\* C8: every call that has ended has logged at least one record, and each of
\* its records carries the target pid, the actor passed as by_user and the
\* outcome.
C8_AuditCarriesActor ==
    Ended =>
        /\ call.log # << >>
        /\ \A i \in DOMAIN call.log :
              /\ call.log[i].pid = IntStr(call.pid)
              /\ call.log[i].by = call.by_user
              /\ \/ call.log[i].result = "success"
                 \/ call.log[i].msg \in {MsgDenied, MsgFailed}

\* the denial rules of the policy, in the order of the specification, as
\* facts about the request and the process table when the call ended
RuleApplies(r) ==
    CASE r = 1 -> call.pid \in {0, 1}
      [] r = 2 -> call.pid = selfPid
      [] r = 3 -> call.pid = parentPid
      [] r = 4 -> /\ call.aliveAtEnd
                  /\ \E name \in CRITICAL_PROCESS_NAMES : lower(name) = lower(target.name)
      [] r = 5 -> ~call.aliveAtEnd
      [] r = 6 -> ~target.perm

RulePhrase(r) ==
    CASE r = 1 -> <<"critical", "system", "process", ":", "PID">>
      [] r = 2 -> <<"self", "process">>
      [] r = 3 -> <<"parent", "process">>
      [] r = 4 -> <<"critical", "system", "process", ":", target.name>>
      [] r = 5 -> <<"not", "found">>
      [] r = 6 -> <<"Access", "denied">>

AppliedRules == { r \in 1 .. 6 : RuleApplies(r) }

\* C9: a denial that is not due to an OS failure of an unexpected class
\* carries the reason of the lowest-numbered rule that applies, and of no
\* other rule.
C9_FirstMatchWins ==
    (Ended /\ Denied /\ call.raised \notin {"OSError", "TimeoutExpired"}) =>
        /\ AppliedRules # {}
        /\ \A r \in 1 .. 6 :
              Contains(call.reason, RulePhrase(r)) <=>
                  (r \in AppliedRules /\ \A q \in AppliedRules : r <= q)

C9_Witness ==
    /\ Ended /\ Denied
    /\ {1, 2, 4, 6} \subseteq AppliedRules

\* C10 as stated: a call on the service's own pid is denied with a reason
\* containing "self process", whatever the own pid is.
C10_SelfReasonAlways ==
    (Ended /\ call.pid = selfPid) =>
        (Denied /\ Contains(call.reason, SelfPhrase))

\* C10 amended: a call on the service's own pid is denied with a reason
\* containing "self process" when the own pid is not 0 or 1; when it is, the
\* reason is the critical-pid one and does not contain "self process".
C10_SelfReasonUnlessCritical ==
    (Ended /\ call.pid = selfPid) =>
        /\ Denied
        /\ call.pid \notin {0, 1} => Contains(call.reason, SelfPhrase)
        /\ call.pid \in {0, 1} =>
              (Contains(call.reason, CriticalPhrase) /\ ~Contains(call.reason, SelfPhrase))

C10_Witness ==
    /\ Ended /\ Denied /\ call.pid = selfPid /\ selfPid = 2
    /\ target.alive /\ target.perm

\* pid is below 0 or above 2^31 - 1
OutOfRange(pid) == pid.hi < 0 \/ pid.hi > 32767

\* C11: both routes answer a pid below 0 or above 2^31 - 1 (so -1 and 2^31)
\* with the validation error 400 and dispatch nothing to the worker pool for
\* it, and never answer 400 to a pid within 0 .. 2^31 - 1 (so 0 and 2^31 - 1).
\* The caller has passed the route's own gate: authentication for the detail
\* query, authentication and the admin role for terminate.
C11_PidValidated ==
    /\ call.pc # "idle" => call.pid >= 0
    /\ (resp # NoResp /\ AuthError(resp.cred).status = 0 /\ "admin" \in resp.cred.roles) =>
           (resp.status = 400 <=> OutOfRange(resp.pid))
    /\ details.pc \in {"dispatched", "ran"} => ~OutOfRange(details.pid)
    /\ (details.pc = "responded" /\ details.authed) =>
           /\ details.status = 400 <=> OutOfRange(details.pid)
           /\ details.status = 400 => details.result = "none"

C11_Witness ==
    /\ resp.status = 400 /\ resp.pid = Wide(-1) /\ call.pc = "idle"
    /\ details.status = 400 /\ details.pid = WideSucc(Wide(MAX_PID_VALUE))
    /\ details.authed

\* ---------------------------------------------------------------------
\* The enumeration (SpecEnum)
\* ---------------------------------------------------------------------

\* the process of the OS table with this pid
OsProcOf(pid) == CHOOSE p \in { ostable[i] : i \in 1 .. Len(ostable) } : p.pid = pid

\* the calls that have returned a list they enumerated themselves
Enumerated == { h \in hist : h.op = "list" /\ h.lEnum }

\* the core count the division uses
Divisor == IF cores = Nothing \/ cores = Some(0) THEN 1 ELSE cores[1]

C18_CpuNormalisedAndCapped ==
    \A h \in Enumerated : \A j \in 1 .. Len(h.procs) :
        LET e == h.procs[j].cpu_percent
            p == OsProcOf(h.procs[j].pid)
        IN  /\ e.den > 0 /\ 0 <= e.num /\ e.num <= 100 * e.den
            /\ p.cpuErr = "ok" =>
                   IF p.raw <= 0 THEN e.num = 0
                   ELSE IF p.raw <= 100 * Divisor
                        THEN e.num * Divisor = p.raw * e.den
                        ELSE e.num = 100 * e.den

\* a reading above 100 per core was capped, one below it was divided, and a
\* machine reporting no core count was treated as having one core
C18_Witness ==
    \E h \in Enumerated :
        /\ cores = Nothing
        /\ ostable[1].raw = 250 /\ ostable[1].cpuErr = "ok" /\ ~ostable[1].gone
        /\ ~ostable[2].gone /\ ostable[2].cpuErr = "ok"
        /\ h.procs[1].cpu_percent = Frac(100, 1)
        /\ h.procs[2].cpu_percent = Frac(50, 1)

\* ---------------------------------------------------------------------
\* The ranking (SpecTop)
\* ---------------------------------------------------------------------

\* the calls of get_system_metrics that returned a result they computed
Computed == { h \in hist : h.op = "metrics" /\ h.mSampled }

\* how many entries of the list come before entry i in the ranking: those of
\* higher cpu, and those of equal cpu enumerated earlier
Rank(list, i) ==
    Cardinality({ j \in 1 .. Len(list) :
                    \/ FracLess(list[i].cpu_percent, list[j].cpu_percent)
                    \/ (list[j].cpu_percent = list[i].cpu_percent /\ j < i) })

\* C16: top_processes of a freshly computed result holds the min(5, n)
\* entries of highest cpu of the n-entry list it was computed from, highest
\* first, entries of equal cpu in enumeration order.
C16_TopFiveStable ==
    \A h \in Computed :
        LET list == h.procs
            top == h.ret[1].top_processes
        IN  /\ Len(top) = IF Len(list) < 5 THEN Len(list) ELSE 5
            /\ \A i \in 1 .. Len(list) :
                   Rank(list, i) < 5 => top[Rank(list, i) + 1] = list[i]

\* six processes were ranked: the first enumerated has the lowest cpu and is
\* cut, the next two tie below the last three, which tie at the top
C16_Witness ==
    \E h \in Computed :
        /\ Len(h.procs) = 6
        /\ [i \in 1 .. 6 |-> h.procs[i].cpu_percent.num] = <<10, 20, 20, 30, 30, 30>>
        /\ [i \in 1 .. 5 |-> h.ret[1].top_processes[i].pid] = <<4, 5, 6, 2, 3>>

\* ---------------------------------------------------------------------
\* The caches (SpecMetrics, SpecList)
\* ---------------------------------------------------------------------

\* worker t takes a step from position pc
Steps(t, pc) == threads[t].pc = pc /\ threads'[t] # threads[t]

\* the list that the list_processes part of worker t's call returns in this
\* step
ListResult(t) ==
    IF threads[t].op = "list"
    THEN (CHOOSE h \in hist' \ hist : TRUE).procs
    ELSE threads'[t].procs

\* C13: a read of a cache slot is served from the slot, with no OS query,
\* exactly when the slot is filled and now - capture time < TTL; otherwise
\* (age >= TTL, or empty slot) the call queries the OS and replaces the
\* payload and the capture time of the slot.
C13_ServedIffYoungerThanTtl ==
    [][\A t \in Workers :
        /\ Steps(t, "L_lookup") =>
               IF pcache.data # Nothing /\ now - pcache.timestamp < PROCESS_CACHE_TTL
               THEN threads'[t].pc = "L_ret" ELSE threads'[t].pc = "L_enum"
        /\ Steps(t, "L_ret") =>
               ~threads[t].lEnum /\ ListResult(t) = pcache.data[1] /\ pcache' = pcache
        /\ Steps(t, "L_enum") => threads'[t].lEnum /\ threads'[t].pc = "L_wdata"
        /\ Steps(t, "L_wdata") =>
               pcache'.data = Some(threads[t].procs) /\ threads'[t].pc = "L_wts"
        /\ Steps(t, "L_wts") =>
               pcache'.timestamp = now /\ ListResult(t) = threads[t].procs
        /\ Steps(t, "M_lookup") =>
               IF mcache.data # Nothing /\ now - mcache.timestamp < METRICS_CACHE_TTL
               THEN threads'[t].pc = "M_ret" /\ ~threads'[t].mSampled
               ELSE threads'[t].pc = "L_lookup" /\ threads'[t].mSampled
        /\ Steps(t, "M_ret") =>
               (CHOOSE h \in hist' \ hist : TRUE).ret = mcache.data /\ mcache' = mcache
        /\ Steps(t, "M_store") =>
               pcache' = pcache /\ mcache'.data = threads'[t].ret /\ threads'[t].pc = "M_wts"
        /\ Steps(t, "M_wts") =>
               mcache'.timestamp = now /\ (CHOOSE h \in hist' \ hist : TRUE).ret = mcache.data
    ]_vars

\* three list calls in a row: the first filled the slot, the second was
\* served from it, and the third, made when the payload was exactly TTL old,
\* enumerated again and replaced the capture time
C13_Witness ==
    \E a, b, c \in { h \in hist : h.op = "list" } :
        /\ a.id < b.id /\ b.id < c.id
        /\ a.lEnum /\ ~b.lEnum /\ c.lEnum
        /\ c.returnedAt = a.returnedAt + PROCESS_CACHE_TTL
        /\ pcache.timestamp = c.returnedAt

\* C14: a read served from a cache slot returns the payload of the same write
\* as the timestamp its freshness test judged, however the worker threads
\* interleave.
C14_PayloadAndTimestampOfOneWrite ==
    [][\A t \in Workers :
        /\ Steps(t, "L_ret") => pcache.dataBy = threads[t].lTsBy
        /\ Steps(t, "M_ret") => mcache.dataBy = threads[t].mTsBy
    ]_vars

\* the list_processes calls of the routes that have returned
ListCalls == { h \in hist : h.op = "list" }

\* worker t's list_processes returns in this step
ListReturns(t) == Steps(t, "L_ret") \/ Steps(t, "L_wts")

\* C12 as stated: if a list_processes call returned snapshot S at time t,
\* every list_processes call made after that and before t + TTL returns S
\* and performs no OS enumeration, whatever runs on the other workers.
C12_SameSnapshotAfterReturn ==
    [][\A t \in Workers : ListReturns(t) =>
          \A h \in ListCalls :
              (h.id \in threads[t].lAfter
                   /\ threads[t].lMade < h.returnedAt + PROCESS_CACHE_TTL)
                  => ~threads[t].lEnum /\ ListResult(t) = h.procs
    ]_vars

\* C12 (amended): if a list_processes call enumerated snapshot S and stored
\* it with capture time t, a call whose freshness test finds that capture
\* time before t + TTL performs no OS enumeration and returns the payload
\* the slot holds when it reads it: S, unless another call has stored its own
\* snapshot in the meantime.
C12_SameSnapshotWhileCaptureFresh ==
    [][\A t \in Workers : \A h \in ListCalls : h.lEnum =>
          /\ (Steps(t, "L_lookup") /\ pcache.tsBy = h.id
                  /\ now < h.returnedAt + PROCESS_CACHE_TTL)
                 => threads'[t].pc = "L_ret" /\ ~threads'[t].lEnum
          /\ (Steps(t, "L_ret") /\ threads[t].lTsBy = h.id)
                 => /\ ~threads[t].lEnum
                    /\ ListResult(t) = pcache.data[1]
                    /\ pcache.dataBy = h.id => ListResult(t) = h.procs
    ]_vars

\* a call enumerated the first table; one second later, the OS table having
\* changed, another call was served that same snapshot
C12_Witness ==
    \E a, b \in ListCalls :
        /\ a.lEnum /\ ~b.lEnum
        /\ b.returnedAt = a.returnedAt + 1
        /\ b.procs = a.procs
        /\ b.procs # EnumerateProcesses(ostable, cores)

\* the members of a sequence
Range(seq) == { seq[i] : i \in 1 .. Len(seq) }

\* worker t's get_system_metrics returns in this step, and what it returns
MetricsReturns(t) == Steps(t, "M_ret") \/ Steps(t, "M_wts")
MetricsReturnValue == (CHOOSE h \in hist' \ hist : TRUE).ret[1]

\* C15 as stated: whenever get_system_metrics returns, from its cache or
\* freshly computed, every entry of top_processes is an element of the list
\* the process cache holds at that moment.
C15_TopWithinCachedList ==
    [][\A t \in Workers : MetricsReturns(t) =>
          /\ pcache.data # Nothing
          /\ Range(MetricsReturnValue.top_processes) \subseteq Range(pcache.data[1])
    ]_vars

\* C15 (amended): every entry of top_processes of a freshly computed result
\* is an element of the list that the call's own list_processes() returned;
\* a result served from the metrics cache is a result computed that way by an
\* earlier or concurrent call. The process cache may hold another list by
\* then.
C15_TopWithinOwnList ==
    [][\A t \in Workers :
          /\ Steps(t, "M_wts") =>
                 Range(MetricsReturnValue.top_processes) \subseteq Range(threads[t].procs)
          /\ Steps(t, "M_store") =>
                 Range(mcache'.data[1].top_processes) \subseteq Range(threads[t].procs)
          /\ Steps(t, "M_ret") =>
                 /\ mcache' = mcache
                 /\ Some(MetricsReturnValue) = mcache.data
    ]_vars

\* a freshly computed result was returned while the process cache held the
\* list of another call, enumerated from a changed OS table
C15_Witness ==
    \E h \in Computed :
        /\ h.ret[1].top_processes # << >>
        /\ pcache.data # Nothing
        /\ pcache.data # Some(h.procs)
        /\ \E e \in Range(h.ret[1].top_processes) : e \notin Range(pcache.data[1])
        /\ pcache.timestamp <= h.returnedAt

\* ---------------------------------------------------------------------
\* The metrics loop (SpecLoop, SpecBroadcast)
\* ---------------------------------------------------------------------

\* the host-metrics pushes of a cycle that a websocket has been sent
PushesOf(ws, cycle) ==
    { i \in 1 .. Len(inbox[ws]) :
          inbox[ws][i].topic = METRICS_HOST /\ inbox[ws][i].cycle = cycle }

\* the cycles in which the loop woke up to no subscriber of host-metrics
QuietCycles == { w.cycle : w \in { x \in mloop.woke : x.subscribers = {} } }

\* C19: a cycle in which no connection is subscribed to host-metrics when the
\* loop wakes dispatches no get_system_metrics call and sends nothing: the
\* calls made are as many as the cycles that found a subscriber.
C19_QuietCycleDoesNothing ==
    /\ ncalls = Cardinality(mloop.woke) - Cardinality(QuietCycles)
    /\ \A c \in QuietCycles :
           /\ c \notin mloop.sampled
           /\ \A ws \in Handles : PushesOf(ws, c) = {}
           /\ \A d \in mloop.done : d.cycle # c
           /\ (mloop.cycle = c) => mloop.pc = "sleeping" /\ ~bcast.active
                                       /\ threads["w1"].op = "idle"

\* the loop woke while c1 was connected but subscribed to another topic only,
\* and c2 had come and gone
C19_Witness ==
    /\ mloop.cycle = 1
    /\ 1 \in QuietCycles
    /\ conn["c1"] = "open"
    /\ conn["c2"] = "gone"
    /\ subscriptions = << [ws |-> "c1", topics |-> {VPROC_EVENTS}] >>
    /\ ncalls = 0
    /\ mloop.pc = "sleeping"

\* C20: when a broadcast_to_topic call is over, every subscriber of the topic
\* whose send succeeded has received the message exactly once, whichever
\* other sends failed; the others have not received it.
C20_FailedSendSparesTheOthers ==
    \A d \in mloop.done :
        /\ ~d.raised
        /\ d.failed \subseteq Subscribers(subscriptions, METRICS_HOST)
        /\ \A ws \in Handles :
               Cardinality(PushesOf(ws, d.cycle)) =
                   IF ws \in Subscribers(subscriptions, METRICS_HOST) \ d.failed
                   THEN 1 ELSE 0

\* all three observers subscribe; the send to the second one failed, and the
\* first and the third were sent the message
C20_Witness ==
    /\ Subscribers(subscriptions, METRICS_HOST) = Handles
    /\ \E d \in mloop.done : d.cycle = 1 /\ d.failed = {"c2"}
    /\ Len(inbox["c1"]) = 1 /\ Len(inbox["c2"]) = 0 /\ Len(inbox["c3"]) = 1

\* C24: a cycle whose sends all succeed delivers the host-metrics push once
\* to every connection whose topic set holds host-metrics and to no other
\* connection: the connections sent to are exactly the subscribers.
C24_PushReachesExactlyTheSubscribers ==
    \A d \in { x \in mloop.done : x.failed = {} } :
        LET reached == { ws \in Handles : PushesOf(ws, d.cycle) # {} } IN
        /\ reached = Subscribers(subscriptions, METRICS_HOST)
        /\ d.targets = reached
        /\ \A ws \in reached : Cardinality(PushesOf(ws, d.cycle)) = 1
        /\ \A ws \in Handles \ reached : inbox[ws] = << >>

\* observer c1 is subscribed to host-metrics, c2 to another topic only and c3
\* to nothing; after one cycle c1 holds one push, c2 and c3 none
C24_Witness ==
    /\ subscriptions = << [ws |-> "c1", topics |-> {METRICS_HOST}],
                         [ws |-> "c2", topics |-> {VPROC_EVENTS}],
                         [ws |-> "c3", topics |-> {}] >>
    /\ \E d \in mloop.done : d.cycle = 1 /\ d.failed = {}
    /\ Len(inbox["c1"]) = 1
    /\ inbox["c1"][1].topic = METRICS_HOST
    /\ inbox["c2"] = << >> /\ inbox["c3"] = << >>

\* ---------------------------------------------------------------------
\* The registry (SpecRegistry)
\* ---------------------------------------------------------------------

\* C23: disconnect, subscribe or unsubscribe called on a websocket that is in
\* neither map raises nothing and changes neither map; a websocket whose
\* handler has not registered it yet, or has disconnected it, is in no map.
C23_UnregisteredHandleIsLeftOut ==
    /\ (last.op \in {"disconnect", "subscribe", "unsubscribe"} /\ ~last.registered)
           => (~last.changed /\ ~last.raised)
    /\ \A ws \in Handles : conn[ws] \in {"new", "accepting", "gone"} => ~Registered(ws)

\* c1 connected, subscribed and was disconnected twice, then subscribe was
\* called on it, while c2 stays registered with a topic
C23_Witness ==
    /\ conn["c1"] = "gone" /\ handler["c1"].exit = "close"
    /\ last = [op |-> "subscribe", ws |-> "c1", user |-> "", topic |-> METRICS_HOST,
               registered |-> FALSE, changed |-> FALSE, raised |-> FALSE]
    /\ active_connections = << [user |-> "u1", conns |-> <<"c2">>] >>
    /\ subscriptions = << [ws |-> "c2", topics |-> {VPROC_EVENTS}] >>

\* ---------------------------------------------------------------------
\* The streaming endpoint (SpecEndpoint)
\* ---------------------------------------------------------------------

\* the handler of ws receives a frame in this step
Receives(ws) == handler'[ws].msgs = handler[ws].msgs + 1

\* the action of a frame is none of subscribe, unsubscribe and ping
UnknownAction(frame) ==
    StrOrNone(frame.action) \notin {"subscribe", "unsubscribe", "ping"}

\* the topic of a frame is none of the known topics
UnknownTopic(frame) == StrOrNone(frame.topic) \notin ALL_TOPICS

\* the frame is passed over: nothing is sent or about to be sent, the maps
\* are as before and the handler awaits the next frame
PassedOver(ws) ==
    /\ inbox' = inbox
    /\ handler'[ws].reply = Nothing
    /\ conn'[ws] = "open"
    /\ subscriptions' = subscriptions
    /\ active_connections' = active_connections
    /\ Registered(ws)'

\* C30 as stated: a frame (a JSON object) whose action is unknown or whose
\* topic is unknown is passed over.
C30_UnknownActionOrTopicPassedOver ==
    [][\A ws \in Handles :
           (Receives(ws) /\ handler'[ws].frame.kind = "object"
              /\ (UnknownAction(handler'[ws].frame) \/ UnknownTopic(handler'[ws].frame)))
               => PassedOver(ws)]_vars

\* C30, amended: a frame (a JSON object) whose action is unknown, or whose
\* action is subscribe or unsubscribe and whose topic is unknown, is passed
\* over; a ping is answered with a pong whatever its topic.
C30_UnknownActionOrSubscriptionTopicPassedOver ==
    [][\A ws \in Handles :
           (Receives(ws) /\ handler'[ws].frame.kind = "object")
               => LET frame == handler'[ws].frame IN
                  /\ (UnknownAction(frame)
                        \/ (frame.action # "ping" /\ UnknownTopic(frame)))
                         => PassedOver(ws)
                  /\ frame.action = "ping"
                         => /\ handler'[ws].reply = Some(Reply("pong", Absent))
                            /\ conn'[ws] = "replying"
                            /\ subscriptions' = subscriptions]_vars

\* c1 subscribed to host-metrics and was told so, then sent a subscribe for
\* an unknown topic, which was passed over
C30_Witness ==
    /\ conn["c1"] = "open"
    /\ handler["c1"].msgs = 2
    /\ handler["c1"].frame = [kind |-> "object", action |-> "subscribe", topic |-> "no.such.topic"]
    /\ inbox["c1"] = << Reply("subscribed", METRICS_HOST) >>
    /\ subscriptions = << [ws |-> "c1", topics |-> {METRICS_HOST}] >>

\* the credential is missing, is no token decode_token can read, or is a
\* token without user id or username
InvalidCredential(cred) ==
    cred.kind # "jwt" \/ cred.sub = None \/ cred.username = None

\* C29: a channel opened with a missing or invalid credential has been closed
\* with code 4001 by the first step of its handler; it has not been accepted,
\* is in neither map, has received no frame from the server and none of its
\* frames has been read.
C29_BadCredentialClosedUnregistered ==
    \A ws \in Handles :
        (conn[ws] # "new" /\ InvalidCredential(handler[ws].cred))
            => /\ conn[ws] = "rejected"
               /\ handler[ws].code = WS_CLOSE_UNAUTHORIZED
               /\ ~Registered(ws)
               /\ inbox[ws] = << >>
               /\ handler[ws].msgs = 0
               /\ handler[ws].reply = Nothing

\* c1 was opened with a token that lacks the username and was closed, while
\* c2, opened with the token of alice, is registered and has got a reply
C29_Witness ==
    /\ conn["c1"] = "rejected"
    /\ handler["c1"].cred.kind = "jwt" /\ handler["c1"].cred.username = None
    /\ handler["c1"].code = WS_CLOSE_UNAUTHORIZED
    /\ conn["c2"] = "open"
    /\ active_connections = << [user |-> "u1", conns |-> <<"c2">>] >>
    /\ inbox["c2"] = << Reply("subscribed", METRICS_HOST) >>
    /\ inbox["c1"] = << >>

\* ---------------------------------------------------------------------
\* The observers and the senders (SpecObservers, SpecDelivery)
\* ---------------------------------------------------------------------

\* this step issues a send of the loop's broadcast_to_topic to ws
TopicSendIssued(ws) ==
    /\ bcast'.active
    /\ bcast'.to = ws
    /\ ~bcast.active \/ bcast'.sent # bcast.sent

\* this step issues a send of broadcast_to_user or broadcast_all to ws
XSendIssued(ws) ==
    /\ xcast'.active
    /\ xcast'.to = ws
    /\ ~xcast.active \/ xcast'.sent # xcast.sent

\* C21: when the handler of ws has processed an unsubscribe for host-metrics
\* ws is no subscriber of the topic, it becomes one again only by a
\* subscribe frame of its own, and a send of a host-metrics push is issued
\* only to a websocket that is a subscriber at that moment, also by a
\* broadcast that began while ws was subscribed.
C21_NoPushAfterUnsubscribe ==
    [][\A ws \in Handles :
           /\ (Receives(ws) /\ handler'[ws].frame.action = "unsubscribe"
                            /\ handler'[ws].frame.topic = METRICS_HOST)
                  => ws \notin Subscribers(subscriptions', METRICS_HOST)
           /\ (ws \in Subscribers(subscriptions', METRICS_HOST)
                 /\ ws \notin Subscribers(subscriptions, METRICS_HOST))
                  => (Receives(ws) /\ handler'[ws].frame.action = "subscribe")
           /\ TopicSendIssued(ws) => ws \in Subscribers(subscriptions, METRICS_HOST)]_vars

\* a broadcast began with c1 and c2 subscribed; c2 unsubscribed while the
\* send to c1 was in progress, and the broadcast ended without a send to c2
C21_Witness ==
    /\ handler["c2"].frame.action = "unsubscribe"
    /\ "c2" \notin Subscribers(subscriptions, METRICS_HOST)
    /\ \E d \in mloop.done :
           /\ d.targets = {"c1", "c2"}
           /\ ~d.raised
           /\ d.failed = {}
           /\ PushesOf("c1", d.cycle) # {}
           /\ PushesOf("c2", d.cycle) = {}

\* C22: a websocket whose handler has called disconnect is in neither map
\* and in no topic's subscriber set, and no send of broadcast_to_topic,
\* broadcast_to_user or broadcast_all is issued to it from then on.
C22_DisconnectedHandleGetsNothing ==
    /\ [](\A ws \in Handles :
              conn[ws] = "gone"
                  => /\ ~Registered(ws)
                     /\ \A topic \in ALL_TOPICS : ws \notin Subscribers(subscriptions, topic))
    /\ [][\A ws \in Handles :
              (TopicSendIssued(ws) \/ XSendIssued(ws))
                  => (conn[ws] # "gone" /\ Registered(ws))]_vars

\* c2 has closed; a cycle of the loop and a broadcast_all have run to their
\* end since and reached c1 and c3 only
C22_Witness ==
    /\ conn["c2"] = "gone"
    /\ inbox["c2"] = << >>
    /\ ~xcast.active /\ xcast.calls = 1 /\ ~xcast.raised
    /\ \E d \in mloop.done : d.targets = {"c1", "c3"} /\ d.failed = {}
    /\ Len(inbox["c1"]) = 2 /\ Len(inbox["c3"]) = 2
    /\ \E i \in 1 .. 2 : inbox["c3"][i] = Notice

\* a send to ws fails in this step: the reply of its handler, or the send in
\* progress of a broadcast
ReplyFailed(ws) ==
    conn[ws] = "replying" /\ conn'[ws] = "open" /\ inbox' = inbox
TopicSendFailed(ws) ==
    bcast.active /\ bcast.to = ws /\ bcast' # bcast /\ conn' = conn /\ inbox' = inbox
XSendFailed(ws) ==
    xcast.active /\ xcast.to = ws /\ xcast' # xcast /\ conn' = conn /\ inbox' = inbox

\* the failed send only drops its message: the maps are as before, the
\* handler awaits the next frame, and a broadcast goes on or ends, raising
\* only when its dict has changed size
OnlyTheMessageIsLost(ws) ==
    /\ active_connections' = active_connections
    /\ subscriptions' = subscriptions
    /\ ReplyFailed(ws) => (handler'[ws].exit = "" /\ handler'[ws].reply = Nothing)
    /\ (TopicSendFailed(ws) /\ ~bcast'.active)
           => /\ mloop'.pc = "sleeping"
              /\ \E d \in mloop'.done \ mloop.done :
                     /\ ws \in d.failed
                     /\ d.raised <=> (Len(subscriptions) # bcast.size)
    /\ (TopicSendFailed(ws) /\ bcast'.active) => bcast'.sent = bcast.sent + 1
    /\ (XSendFailed(ws) /\ ~xcast'.active)
           => /\ ws \in xcast'.failed
              /\ xcast'.raised => (xcast.kind = "all" /\ Len(active_connections) # xcast.size)
    /\ (XSendFailed(ws) /\ xcast'.active) => xcast'.sent = xcast.sent + 1

\* ws leaves the maps in this step
Leaves(ws) == Registered(ws) /\ ~Registered(ws)'

\* C25 as stated: a failed send only drops its message, and a websocket
\* leaves the maps only when its handler gets the close of its connection.
C25_LeavesOnlyOnClose ==
    [][\A ws \in Handles :
           /\ (ReplyFailed(ws) \/ TopicSendFailed(ws) \/ XSendFailed(ws))
                  => OnlyTheMessageIsLost(ws)
           /\ Leaves(ws) => (conn[ws] = "open" /\ conn'[ws] = "gone"
                                /\ handler'[ws].exit = "close")]_vars

\* C25, amended: a failed send only drops its message, and a websocket
\* leaves the maps only when its own handler leaves the receive loop, on the
\* close of the connection or on a frame that raises.
C25_LeavesOnlyWhenHandlerEnds ==
    [][\A ws \in Handles :
           /\ (ReplyFailed(ws) \/ TopicSendFailed(ws) \/ XSendFailed(ws))
                  => OnlyTheMessageIsLost(ws)
           /\ Leaves(ws) => (conn[ws] = "open" /\ conn'[ws] = "gone"
                                /\ handler'[ws].exit \in {"close", "error"})]_vars

\* the pong for c1, the push to c1 and the notice to c1 have all failed,
\* c1 is registered as before and c2 and c3 have got the push and the notice
C25_Witness ==
    /\ handler["c1"].msgs = 1 /\ handler["c1"].frame.action = "ping"
    /\ conn["c1"] = "open"
    /\ inbox["c1"] = << >>
    /\ \E d \in mloop.done : d.failed = {"c1"} /\ ~d.raised
    /\ ~xcast.active /\ xcast.failed = {"c1"} /\ ~xcast.raised
    /\ Len(inbox["c2"]) = 2 /\ Len(inbox["c3"]) = 2
    /\ Registered("c1")
    /\ Subscribers(subscriptions, METRICS_HOST) = Handles

\* the iterations of the loop that ended in its except Exception clause
Raised == { d.cycle : d \in { x \in mloop.done : x.raised } }

\* C26: an exception raised in an iteration of the metrics loop, by the
\* sampling call or by the broadcast, does not end the loop: the loop is
\* sleeping again right after it, and while the loop is not cancelled it
\* goes on to a later iteration.
C26_ExceptionDoesNotEndLoop ==
    /\ [](mloop.pc \in {"sleeping", "sampling", "broadcasting"})
    /\ [][Raised' # Raised => mloop'.pc = "sleeping"]_vars
    /\ \A c \in 1 .. MaxCycles - 1 : (c \in Raised) ~> (mloop.cycle > c)

\* the sampling call of the first iteration raised, and the loop is in the
\* broadcast of the second
C26_Witness ==
    /\ app.cancel = "none"
    /\ \E d \in mloop.done : d.cycle = 1 /\ d.raised /\ d.targets = {}
    /\ mloop.cycle = 2
    /\ mloop.pc = "broadcasting"

\* the broadcast of the first iteration raised on a changed registry, and
\* the loop sleeps after a second iteration
C26_WitnessBroadcast ==
    /\ \E d \in mloop.done : d.cycle = 1 /\ d.raised /\ d.targets # {}
    /\ \E d \in mloop.done : d.cycle = 2
    /\ mloop.pc = "sleeping"

\* ---------------------------------------------------------------------
\* The shutdown (SpecLifecycle)
\* ---------------------------------------------------------------------

\* this step is one of the loop: an iteration starts or ends, a sampling call
\* is dispatched, or a send is issued or received
LoopActs ==
    \/ mloop' # mloop
    \/ ncalls' # ncalls
    \/ bcast' # bcast
    \/ inbox' # inbox
    \/ \E ws \in Handles : TopicSendIssued(ws)

\* C27: once stop_metrics_broadcast has returned the loop task has
\* finished, and from then on it starts no iteration, dispatches no sampling
\* call and issues no send; the shutdown closes the database only after
\* stop_metrics_broadcast has returned.
C27_StopReturnsAfterLoopFinished ==
    /\ [](app.pc \in {"stopped", "down"} => mloop.pc = "finished" /\ ~bcast.active)
    /\ [][app.pc \in {"stopped", "down"} => ~LoopActs]_vars
    /\ [][app'.db # app.db => app.pc = "stopped" /\ app'.pc = "down"]_vars

\* the shutdown came during a broadcast: the loop has finished, the stop has
\* returned and the database connection made at startup is closed, while the
\* other subscribers have not got the push of the interrupted iteration
C27_Witness ==
    /\ app.pc = "down"
    /\ app.db_connected /\ ~app.db
    /\ app.stoppedAt = "broadcasting"
    /\ mloop.pc = "finished"
    /\ mloop.cycle = 2
    /\ \E ws \in Subscribers(subscriptions, METRICS_HOST) : Len(inbox[ws]) = 1

\* this step delivers the cancellation to the loop task
CancelDelivered == app.cancel = "requested" /\ app'.cancel = "delivered"

\* C28: the step that delivers the cancellation ends the loop wherever it
\* was: it issues no send, it completes no iteration, and only the send
\* that was in progress may still reach its client; after it no send is
\* issued and the interrupted iteration stays uncompleted.
C28_CancelledLoopExitsAtOnce ==
    /\ [][CancelDelivered =>
              /\ mloop'.pc = "finished"
              /\ mloop'.done = mloop.done
              /\ ~bcast'.active
              /\ \A ws \in Handles : ~TopicSendIssued(ws)
              /\ \A ws \in Handles : inbox'[ws] # inbox[ws] => (bcast.active /\ bcast.to = ws)]_vars
    /\ [][app.cancel = "delivered" => ~LoopActs /\ app'.cancel = "delivered"]_vars
    /\ [](app.cancel = "delivered" /\ app.stoppedAt \in {"sampling", "broadcasting"}
              => \A d \in mloop.done : d.cycle # mloop.cycle)

\* the cancellation came during the first send of the second broadcast: c1
\* has the push of the first iteration and may have that of the second, the
\* subscribers behind it have only the first
C28_Witness ==
    /\ app.cancel = "delivered"
    /\ app.stoppedAt = "broadcasting"
    /\ mloop.pc = "finished"
    /\ mloop.cycle = 2
    /\ Subscribers(subscriptions, METRICS_HOST) = Handles
    /\ Len(inbox["c1"]) = 2
    /\ Len(inbox["c2"]) = 1
    /\ Len(inbox["c3"]) = 1

\* the cancellation came while the worker thread was sampling
C28_WitnessSampling ==
    /\ app.cancel = "delivered"
    /\ app.stoppedAt = "sampling"
    /\ mloop.pc = "finished"
    /\ threads["w1"].op = "metrics"

\* the cancellation came during the sleep
C28_WitnessSleeping ==
    /\ app.cancel = "delivered"
    /\ app.stoppedAt = "sleeping"
    /\ mloop.pc = "finished"

\* ---------------------------------------------------------------------
\* The loop under faults (SpecFaults)
\* ---------------------------------------------------------------------

\* this step is the loop taking the exception of its sampling call
SamplingFails ==
    /\ mloop.pc = "sampling"
    /\ mloop' # mloop
    /\ \E h \in hist : h.id = mloop.callId /\ h.ret = Nothing

\* the iterations whose sampling call raised
FailedSamplings == { d.cycle : d \in { x \in mloop.done : x.raised /\ x.targets = {} } }

\* C40: when the sampling call of an iteration raises, the loop starts no
\* broadcast and issues no send, no inbox gets anything, no connection and
\* no registry entry changes, and no websocket ever holds a push of that
\* iteration.
C40_FailedSamplingSendsNothing ==
    /\ [][SamplingFails =>
              /\ inbox' = inbox
              /\ ~bcast'.active
              /\ \A ws \in Handles : ~TopicSendIssued(ws)
              /\ conn' = conn /\ handler' = handler
              /\ active_connections' = active_connections
              /\ subscriptions' = subscriptions]_vars
    /\ [](\A c \in FailedSamplings : \A ws \in Handles : PushesOf(ws, c) = {})

\* the sampling call of the first iteration raised with all three observers
\* subscribed; they hold the push of the second iteration and nothing else
C40_Witness ==
    /\ 1 \in FailedSamplings
    /\ Subscribers(subscriptions, METRICS_HOST) = Handles
    /\ \E d \in mloop.done : d.cycle = 2 /\ ~d.raised /\ d.failed = {}
    /\ \A ws \in Handles : Len(inbox[ws]) = 1 /\ PushesOf(ws, 2) = {1}

\* ---------------------------------------------------------------------
\* The loop without end (SpecChurn)
\* ---------------------------------------------------------------------

\* this step delivers a host-metrics push to ws
PushDelivered(ws) ==
    /\ Len(inbox'[ws]) = Len(inbox[ws]) + 1
    /\ inbox'[ws][Len(inbox'[ws])].topic = METRICS_HOST

\* C38: c3 stays connected and subscribed to host-metrics, the loop is not
\* cancelled, every sampling call returns and every send succeeds: c3 is
\* delivered a push again and again.
C38_SubscriberKeepsReceiving ==
    []<><<PushDelivered("c3")>>_vars

\* c2 is the first subscriber the iteration of the loop comes to: its send
\* is issued before the iterator is asked for a second entry
C38_FirstSubscriberKeepsReceiving ==
    []<><<PushDelivered("c2")>>_vars

\* this step ends a call of broadcast_to_topic
BroadcastEnds == bcast.active /\ ~bcast'.active /\ mloop'.pc = "sleeping"

\* C34: when a call of broadcast_to_topic ends, every websocket that was
\* subscribed to the topic from its start to its end has been sent the
\* message, also when others connected or disconnected during the sends.
C34_SteadySubscriberIsSent ==
    [][BroadcastEnds =>
           \A ws \in bcast.targets \cap Subscribers(subscriptions', METRICS_HOST) :
               \E i \in 1 .. Len(inbox'[ws]) :
                   inbox'[ws][i].topic = METRICS_HOST /\ inbox'[ws][i].cycle = bcast.cycle]_vars

\* ---------------------------------------------------------------------
\* The two maps of the registry (SpecCalls)
\* ---------------------------------------------------------------------

\* how many times ws is listed in active_connections
TimesListed(ws) ==
    Cardinality({ <<i, j>> \in (1 .. Len(active_connections)) \X (1 .. Cardinality(Handles)) :
                      /\ j <= Len(active_connections[i].conns)
                      /\ active_connections[i].conns[j] = ws })

\* no handle is listed twice and no owner has an empty list
ListedOnce ==
    /\ \A ws \in Handles : TimesListed(ws) <= 1
    /\ \A i \in 1 .. Len(active_connections) : active_connections[i].conns # << >>

\* the keys of subscriptions
Keyed == { subscriptions[i].ws : i \in 1 .. Len(subscriptions) }

\* this step is a disconnect call that names another owner than the one ws
\* is listed under
Misnamed ==
    /\ last' # last
    /\ last'.op = "disconnect"
    /\ \E i \in 1 .. Len(active_connections) :
           /\ active_connections[i].user # last'.user
           /\ \E j \in 1 .. Len(active_connections[i].conns) :
                  active_connections[i].conns[j] = last'.ws

\* C36: the handles keyed in subscriptions are exactly the handles listed in
\* active_connections, each listed once, and no owner has an empty list.
C36_RegistryMapsAgree ==
    /\ Keyed = Listed(active_connections)
    /\ ListedOnce

\* what does hold: every keyed handle is listed, each handle is listed at
\* most once and no owner has an empty list; and the two maps hold the same
\* handles after every call that is no disconnect under another owner than
\* the one its handle is listed under.
MapsAgreeWhenOwnerNamed ==
    /\ [](Keyed \subseteq Listed(active_connections) /\ ListedOnce)
    /\ [][(C36_RegistryMapsAgree /\ ~Misnamed) => C36_RegistryMapsAgree']_vars

\* c1 and c2 of one owner and c3 of another were connected; c1 subscribed
\* and was disconnected twice, the second call finding nothing to do
TwiceDisconnected ==
    /\ conn = [ws \in Handles |-> "open"]
    /\ last.op = "disconnect" /\ last.ws = "c1" /\ last.user = "u1"
    /\ ~last.registered /\ ~last.changed
    /\ Keyed = {"c2", "c3"}
    /\ Len(active_connections) = 2
    /\ C36_RegistryMapsAgree

\* ---------------------------------------------------------------------
\* The end of a handler (SpecEndpoint)
\* ---------------------------------------------------------------------

\* the handler of ws has left its receive loop
HandlerEnded(ws) == conn[ws] = "gone" \/ handler[ws].exit # ""

\* C39: a websocket is in the registry only while its handler is in the
\* receive loop; once the handler has left the loop, on the close of the
\* connection, on a receive error or on a frame that raises, the websocket
\* is in neither map.
C39_NoEntryOutlivesHandler ==
    \A ws \in Handles :
        /\ HandlerEnded(ws) => ~Registered(ws)
        /\ Registered(ws) => conn[ws] \in {"open", "replying"}
        /\ conn[ws] = "gone" <=> handler[ws].exit \in {"close", "error"}

\* c1 subscribed and then sent a frame that raised, c2 subscribed and
\* closed: both handlers have ended and both maps are empty
C39_Witness ==
    /\ handler["c1"].exit = "error" /\ handler["c1"].msgs = 2
    /\ handler["c2"].exit = "close" /\ handler["c2"].msgs = 1
    /\ inbox["c1"] # << >> /\ inbox["c2"] # << >>
    /\ active_connections = << >>
    /\ subscriptions = << >>

\* ---------------------------------------------------------------------
\* The registration (SpecObservers)
\* ---------------------------------------------------------------------

\* this step is manager.connect registering ws
Registers(ws) == conn[ws] = "accepting" /\ conn'[ws] = "open"

\* C33: connect puts a websocket into both maps in one step: the step takes
\* it from neither map to being listed under its owner with an empty topic
\* set, and in no state, whatever the loop or a broadcast is doing, is a
\* websocket in one map and not in the other.
C33_ConnectRegistersAtOnce ==
    /\ [](Keyed = Listed(active_connections))
    /\ [][\A ws \in Handles :
              Registers(ws) =>
                  /\ ws \notin Keyed /\ ws \notin Listed(active_connections)
                  /\ \E i \in 1 .. Len(active_connections') :
                         /\ active_connections'[i].user = UserOf(ws)
                         /\ \E j \in 1 .. Len(active_connections'[i].conns) :
                                active_connections'[i].conns[j] = ws
                  /\ \E k \in 1 .. Len(subscriptions') :
                         subscriptions'[k].ws = ws /\ subscriptions'[k].topics = {}]_vars

\* c2 was registered while the broadcast of the loop was suspended in its
\* send to c1: it is in both maps with an empty topic set
C33_Witness ==
    /\ bcast.active /\ bcast.to = "c1"
    /\ bcast.size = 1 /\ Len(subscriptions) = 2
    /\ conn["c2"] = "open" /\ handler["c2"].msgs = 0
    /\ "c2" \in Listed(active_connections)
    /\ subscriptions[2] = [ws |-> "c2", topics |-> {}]

\* ---------------------------------------------------------------------
\* The audit events of a terminate_process call (Spec)
\* ---------------------------------------------------------------------

\* C35: a terminate_process call that has ended has written exactly one
\* log record, and when it found a critical process name that record is the
\* denial with the critical-name reason.
C35_OneEventNamingTheCause ==
    Ended =>
        /\ Len(call.log) = 1
        /\ (call.proc_name # NoName /\ IsCriticalName(call.proc_name))
               => call.log[1] = CriticalNameLog(call.pid, call.proc_name)

\* the signal this step sends, "" when it sends none
SignalSent ==
    IF Len(call'.sent) = Len(call.sent) + 1 THEN call'.sent[Len(call'.sent)].sig ELSE ""

\* C32: terminate_process sends SIGKILL only as its second signal, after
\* SIGTERM; it comes to the kill only from the graceful wait, when the
\* GRACEFUL_TIMEOUT units have passed with the target alive; and a wait that
\* finds the target gone is never followed by the kill.
C32_KillOnlyAfterGracefulTimeout ==
    /\ [](\A i \in 1 .. Len(call.sent) :
              call.sent[i].sig = "SIGKILL" => (i = 2 /\ call.sent[1].sig = "SIGTERM"))
    /\ [][SignalSent = "SIGKILL" =>
              (call.pc = "kill" /\ call.sent = <<[pid |-> call.pid, sig |-> "SIGTERM"]>>)]_vars
    /\ [][(call'.pc = "kill" /\ call.pc # "kill") =>
              (call.pc = "wait1" /\ call.waited = GRACEFUL_TIMEOUT /\ target.alive)]_vars
    /\ [][(call.pc = "wait1" /\ ~target.alive) => call'.pc \notin {"kill", "wait2"}]_vars

\* the target outlived the graceful wait, was killed and the call returned
C32_Witness ==
    /\ call.pc = "returned"
    /\ call.sent = <<[pid |-> call.pid, sig |-> "SIGTERM"], [pid |-> call.pid, sig |-> "SIGKILL"]>>
    /\ ~call.aliveAtEnd

\* ---------------------------------------------------------------------
\* The loop tasks (SpecTasks)
\* ---------------------------------------------------------------------

\* C37: whatever start and stop calls have been made, at most one loop
\* task is alive, and none is alive when the latest call to return was a
\* stop.
C37_AtMostOneLoopTask ==
    /\ Cardinality(AliveTasks) <= 1
    /\ (app.loops.stop = "idle" /\ app.loops.returned = "stop") => AliveTasks = {}

\* ---------------------------------------------------------------------
\* The order of the messages of one connection (SpecOrder)
\* ---------------------------------------------------------------------

\* the reply sent last to ws has arrived in the order of issue: what arrived
\* between its issue and its arrival is the push whose send was in flight
\* when it was issued, and that push has not arrived after it
ReplyInOrder(ws) ==
    handler[ws].pos # 0 =>
        /\ \A i \in handler[ws].at + 1 .. handler[ws].pos - 1 :
               inbox[ws][i].cycle = handler[ws].behind
        /\ \A i \in handler[ws].pos + 1 .. Len(inbox[ws]) :
               inbox[ws][i].cycle # handler[ws].behind

\* this step makes a reply arrive at ws
ReplyArrives(ws) ==
    /\ Len(inbox'[ws]) = Len(inbox[ws]) + 1
    /\ inbox'[ws][Len(inbox'[ws])].cycle = 0

====
